---------------------------- MODULE Spec2Model ----------------------------
(***************************************************************************)
(* ATC-Data-Extraction: the text normalizer (src/src/preprocessing/        *)
(* normalizer.py), the transmission filter (src/src/preprocessing/         *)
(* filters.py) and the audio quality scorer (src/src/analysis/             *)
(* audio_quality.py).                                                      *)
(*                                                                         *)
(* A text is a sequence of characters, a character a one-character string  *)
(* (the two accented letters are written "E_ACUTE" and "e_acute").  The    *)
(* regular expressions of the source are modelled by scanners that match   *)
(* the way Python's re.sub does: leftmost, greedy, non-overlapping.        *)
(***************************************************************************)
EXTENDS Integers, Sequences, FiniteSets, TLC

(***************************************************************************)
(* Characters and the classes Python's str methods and re module use.      *)
(***************************************************************************)
UPPER ==
  << "A","B","C","D","E","F","G","H","I","J","K","L","M",
     "N","O","P","Q","R","S","T","U","V","W","X","Y","Z" >>

LOWER ==
  << "a","b","c","d","e","f","g","h","i","j","k","l","m",
     "n","o","p","q","r","s","t","u","v","w","x","y","z" >>

AZSet == { UPPER[i] : i \in DOMAIN UPPER }

LowerSet == { LOWER[i] : i \in DOMAIN LOWER }

DigitSet == { "0","1","2","3","4","5","6","7","8","9" }

\* Letters outside ASCII: str.isalpha and \w accept them, [A-Z] does not.
AccentSet == { "E_ACUTE", "e_acute" }

AlphaSet == AZSet \cup LowerSet \cup AccentSet

AlnumSet == AlphaSet \cup DigitSet

WordSet == AlnumSet \cup { "_" }

SpaceSet == { " ", "\t", "\n" }

UpperMap ==
  [ c \in LowerSet \cup { "e_acute" } |->
      IF c = "e_acute" THEN "E_ACUTE"
      ELSE UPPER[CHOOSE i \in DOMAIN LOWER : LOWER[i] = c] ]

LowerMap ==
  [ c \in AZSet \cup { "E_ACUTE" } |->
      IF c = "E_ACUTE" THEN "e_acute"
      ELSE LOWER[CHOOSE i \in DOMAIN UPPER : UPPER[i] = c] ]

CharUpper(c) == IF c \in DOMAIN UpperMap THEN UpperMap[c] ELSE c

CharLower(c) == IF c \in DOMAIN LowerMap THEN LowerMap[c] ELSE c

str_upper(t) == [ i \in 1..Len(t) |-> CharUpper(t[i]) ]

str_lower(t) == [ i \in 1..Len(t) |-> CharLower(t[i]) ]

(***************************************************************************)
(* Sequence helpers.                                                       *)
(***************************************************************************)
SetMin(S) == CHOOSE x \in S : \A y \in S : x <= y

SetMax(S) == CHOOSE x \in S : \A y \in S : y <= x

\* The index after the longest run of characters of class S that starts at i.
RunEnd(t, i, S) ==
  LET stops == { j \in i..Len(t) : t[j] \notin S }
  IN  IF stops = {} THEN Len(t) + 1 ELSE SetMin(stops)

\* The index of the first character of class S at or after i, Len(t) + 1 if
\* there is none: where a scan that found no match at i - 1 can next find one.
Find(t, i, S) ==
  LET hits == { j \in i..Len(t) : t[j] \in S }
  IN  IF hits = {} THEN Len(t) + 1 ELSE SetMin(hits)

\* The index of the first character of the trailing run of characters not in S.
TrailStart(t, S) ==
  LET keeps == { j \in 1..Len(t) : t[j] \in S }
  IN  IF keeps = {} THEN 1 ELSE SetMax(keeps) + 1

\* \b before position i, with a word character at i.
AtWordStart(t, i) ==
  /\ i <= Len(t)
  /\ t[i] \in WordSet
  /\ (i = 1 \/ t[i-1] \notin WordSet)

\* \b after position i - 1, which holds a word character.
AtWordEnd(t, i) == i > Len(t) \/ t[i] \notin WordSet

AllIn(t, a, b, S) == \A k \in a..b : t[k] \in S

\* The literal w occurs in t at position i.
MatchesAt(t, i, w) ==
  /\ i + Len(w) - 1 <= Len(t)
  /\ \A k \in 1..Len(w) : t[i + k - 1] = w[k]

\* The same under re.IGNORECASE.
MatchesAtCI(t, i, w) ==
  /\ i + Len(w) - 1 <= Len(t)
  /\ \A k \in 1..Len(w) : CharUpper(t[i + k - 1]) = CharUpper(w[k])

Range(s) == { s[k] : k \in DOMAIN s }

RECURSIVE Join(_, _)
Join(words, sep) ==
  IF words = <<>> THEN <<>>
  ELSE IF Len(words) = 1 THEN words[1]
  ELSE words[1] \o sep \o Join(Tail(words), sep)

\* ' '.join(s): the characters of s separated by single spaces.
Spaced(s) == Join([ i \in 1..Len(s) |-> << s[i] >> ], << " " >>)

\* str.split(): the maximal runs of non-whitespace characters.
RECURSIVE SplitFrom(_, _)
SplitFrom(t, i) ==
  IF i > Len(t) THEN <<>>
  ELSE IF t[i] \in SpaceSet THEN SplitFrom(t, RunEnd(t, i, SpaceSet))
  ELSE LET e == SetMin({ j \in i..Len(t) + 1 : j > Len(t) \/ t[j] \in SpaceSet })
       IN  << SubSeq(t, i, e - 1) >> \o SplitFrom(t, e)

str_split(t) == SplitFrom(t, 1)

\* str.strip().
str_strip(t) ==
  LET ink == { j \in 1..Len(t) : t[j] \notin SpaceSet }
  IN  IF ink = {} THEN <<>> ELSE SubSeq(t, SetMin(ink), SetMax(ink))

\* A Python dict built from key/value pairs: the last pair of a key wins.
DictOf(pairs) ==
  [ k \in { pairs[i][1] : i \in DOMAIN pairs } |->
      pairs[SetMax({ i \in DOMAIN pairs : pairs[i][1] = k })][2] ]

(***************************************************************************)
(* The lookup tables of ATCTextNormalizer.                                 *)
(***************************************************************************)
PHONETIC_ALPHABET_PAIRS ==
  << << <<"A">>, <<"A","L","P","H","A">> >>,
     << <<"B">>, <<"B","R","A","V","O">> >>,
     << <<"C">>, <<"C","H","A","R","L","I","E">> >>,
     << <<"D">>, <<"D","E","L","T","A">> >>,
     << <<"E">>, <<"E","C","H","O">> >>,
     << <<"F">>, <<"F","O","X","T","R","O","T">> >>,
     << <<"G">>, <<"G","O","L","F">> >>,
     << <<"H">>, <<"H","O","T","E","L">> >>,
     << <<"I">>, <<"I","N","D","I","A">> >>,
     << <<"J">>, <<"J","U","L","I","E","T">> >>,
     << <<"K">>, <<"K","I","L","O">> >>,
     << <<"L">>, <<"L","I","M","A">> >>,
     << <<"M">>, <<"M","I","K","E">> >>,
     << <<"N">>, <<"N","O","V","E","M","B","E","R">> >>,
     << <<"O">>, <<"O","S","C","A","R">> >>,
     << <<"P">>, <<"P","A","P","A">> >>,
     << <<"Q">>, <<"Q","U","E","B","E","C">> >>,
     << <<"R">>, <<"R","O","M","E","O">> >>,
     << <<"S">>, <<"S","I","E","R","R","A">> >>,
     << <<"T">>, <<"T","A","N","G","O">> >>,
     << <<"U">>, <<"U","N","I","F","O","R","M">> >>,
     << <<"V">>, <<"V","I","C","T","O","R">> >>,
     << <<"W">>, <<"W","H","I","S","K","E","Y">> >>,
     << <<"X">>, <<"X","R","A","Y">> >>,
     << <<"Y">>, <<"Y","A","N","K","E","E">> >>,
     << <<"Z">>, <<"Z","U","L","U">> >> >>

PHONETIC_ALPHABET == DictOf(PHONETIC_ALPHABET_PAIRS)

NUMBER_WORDS_PAIRS ==
  << << <<"0">>, <<"Z","E","R","O">> >>,
     << <<"1">>, <<"O","N","E">> >>,
     << <<"2">>, <<"T","W","O">> >>,
     << <<"3">>, <<"T","H","R","E","E">> >>,
     << <<"4">>, <<"F","O","U","R">> >>,
     << <<"5">>, <<"F","I","V","E">> >>,
     << <<"6">>, <<"S","I","X">> >>,
     << <<"7">>, <<"S","E","V","E","N">> >>,
     << <<"8">>, <<"E","I","G","H","T">> >>,
     << <<"9">>, <<"N","I","N","E","R">> >> >>

NUMBER_WORDS == DictOf(NUMBER_WORDS_PAIRS)

SPELLING_CORRECTIONS_PAIRS ==
  << << <<"R","O","G","E","R">>, <<"R","O","G","E","R">> >>,
     << <<"R","O","D","G","E","R">>, <<"R","O","G","E","R">> >>,
     << <<"W","I","L","C","O">>, <<"W","I","L","C","O">> >>,
     << <<"W","I","L","K","O">>, <<"W","I","L","C","O">> >>,
     << <<"A","F","F","I","R","M","A","T","I","V","E">>, <<"A","F","F","I","R","M","A","T","I","V","E">> >>,
     << <<"A","F","I","R","M","A","T","I","V","E">>, <<"A","F","F","I","R","M","A","T","I","V","E">> >>,
     << <<"N","E","G","A","T","I","V","E">>, <<"N","E","G","A","T","I","V","E">> >>,
     << <<"N","E","G","I","T","I","V","E">>, <<"N","E","G","A","T","I","V","E">> >>,
     << <<"C","L","E","A","R","E","D">>, <<"C","L","E","A","R","E","D">> >>,
     << <<"C","L","E","A","R","D">>, <<"C","L","E","A","R","E","D">> >>,
     << <<"R","U","N","W","A","Y">>, <<"R","U","N","W","A","Y">> >>,
     << <<"R","U","N","A","W","A","Y">>, <<"R","U","N","W","A","Y">> >>,
     << <<"T","A","X","I">>, <<"T","A","X","I">> >>,
     << <<"T","A","X","I","E">>, <<"T","A","X","I">> >>,
     << <<"C","O","N","T","A","C","T">>, <<"C","O","N","T","A","C","T">> >>,
     << <<"F","R","E","Q","U","E","N","C","Y">>, <<"F","R","E","Q","U","E","N","C","Y">> >>,
     << <<"F","R","E","Q">>, <<"F","R","E","Q","U","E","N","C","Y">> >>,
     << <<"S","Q","U","A","W","K">>, <<"S","Q","U","A","W","K">> >>,
     << <<"S","Q","W","A","W","K">>, <<"S","Q","U","A","W","K">> >>,
     << <<"A","L","T","I","T","U","D","E">>, <<"A","L","T","I","T","U","D","E">> >>,
     << <<"A","L","T">>, <<"A","L","T","I","T","U","D","E">> >>,
     << <<"D","E","S","C","E","N","T">>, <<"D","E","S","C","E","N","T">> >>,
     << <<"D","E","C","E","N","T">>, <<"D","E","S","C","E","N","T">> >>,
     << <<"A","P","P","R","O","A","C","H">>, <<"A","P","P","R","O","A","C","H">> >>,
     << <<"A","P","R","O","A","C","H">>, <<"A","P","P","R","O","A","C","H">> >>,
     << <<"D","E","P","A","R","T","U","R","E">>, <<"D","E","P","A","R","T","U","R","E">> >>,
     << <<"D","E","P","A","T","U","R","E">>, <<"D","E","P","A","R","T","U","R","E">> >>,
     << <<"M","A","I","N","T","A","I","N">>, <<"M","A","I","N","T","A","I","N">> >>,
     << <<"M","A","N","T","A","I","N">>, <<"M","A","I","N","T","A","I","N">> >>,
     << <<"T","R","A","F","F","I","C">>, <<"T","R","A","F","F","I","C">> >>,
     << <<"T","R","A","F","I","C">>, <<"T","R","A","F","F","I","C">> >>,
     << <<"C","O","N","T","I","N","U","E">>, <<"C","O","N","T","I","N","U","E">> >>,
     << <<"C","O","N","T","I","U","E">>, <<"C","O","N","T","I","N","U","E">> >> >>

SPELLING_CORRECTIONS == DictOf(SPELLING_CORRECTIONS_PAIRS)

\* The patterns are escaped literals; each is given here unescaped.
REMOVABLE_TAGS ==
  << <<"[","G","R","O","U","N","D","]">>,
     <<"[","A","I","R","]">>,
     <<"[","S","P","E","A","K","E","R","]">>,
     <<"[","P","I","L","O","T","]">>,
     <<"[","A","T","C","]">>,
     <<"[","T","O","W","E","R","]">>,
     <<"[","C","E","N","T","E","R","]">>,
     <<"[","A","P","P","R","O","A","C","H","]">>,
     <<"[","D","E","P","A","R","T","U","R","E","]">>,
     <<"[","C","L","E","A","R","A","N","C","E","]">> >>

CONTRACTIONS_PAIRS ==
  << << <<"I","'","M">>, <<"I"," ","A","M">> >>,
     << <<"I","'","V","E">>, <<"I"," ","H","A","V","E">> >>,
     << <<"I","'","L","L">>, <<"I"," ","W","I","L","L">> >>,
     << <<"I","'","D">>, <<"I"," ","W","O","U","L","D">> >>,
     << <<"Y","O","U","'","R","E">>, <<"Y","O","U"," ","A","R","E">> >>,
     << <<"Y","O","U","'","V","E">>, <<"Y","O","U"," ","H","A","V","E">> >>,
     << <<"Y","O","U","'","L","L">>, <<"Y","O","U"," ","W","I","L","L">> >>,
     << <<"Y","O","U","'","D">>, <<"Y","O","U"," ","W","O","U","L","D">> >>,
     << <<"H","E","'","S">>, <<"H","E"," ","I","S">> >>,
     << <<"H","E","'","L","L">>, <<"H","E"," ","W","I","L","L">> >>,
     << <<"H","E","'","D">>, <<"H","E"," ","W","O","U","L","D">> >>,
     << <<"S","H","E","'","S">>, <<"S","H","E"," ","I","S">> >>,
     << <<"S","H","E","'","L","L">>, <<"S","H","E"," ","W","I","L","L">> >>,
     << <<"S","H","E","'","D">>, <<"S","H","E"," ","W","O","U","L","D">> >>,
     << <<"I","T","'","S">>, <<"I","T"," ","I","S">> >>,
     << <<"I","T","'","L","L">>, <<"I","T"," ","W","I","L","L">> >>,
     << <<"I","T","'","D">>, <<"I","T"," ","W","O","U","L","D">> >>,
     << <<"W","E","'","R","E">>, <<"W","E"," ","A","R","E">> >>,
     << <<"W","E","'","V","E">>, <<"W","E"," ","H","A","V","E">> >>,
     << <<"W","E","'","L","L">>, <<"W","E"," ","W","I","L","L">> >>,
     << <<"W","E","'","D">>, <<"W","E"," ","W","O","U","L","D">> >>,
     << <<"T","H","E","Y","'","R","E">>, <<"T","H","E","Y"," ","A","R","E">> >>,
     << <<"T","H","E","Y","'","V","E">>, <<"T","H","E","Y"," ","H","A","V","E">> >>,
     << <<"T","H","E","Y","'","L","L">>, <<"T","H","E","Y"," ","W","I","L","L">> >>,
     << <<"T","H","E","Y","'","D">>, <<"T","H","E","Y"," ","W","O","U","L","D">> >>,
     << <<"T","H","A","T","'","S">>, <<"T","H","A","T"," ","I","S">> >>,
     << <<"T","H","A","T","'","L","L">>, <<"T","H","A","T"," ","W","I","L","L">> >>,
     << <<"T","H","A","T","'","D">>, <<"T","H","A","T"," ","W","O","U","L","D">> >>,
     << <<"W","H","O","'","S">>, <<"W","H","O"," ","I","S">> >>,
     << <<"W","H","O","'","L","L">>, <<"W","H","O"," ","W","I","L","L">> >>,
     << <<"W","H","O","'","D">>, <<"W","H","O"," ","W","O","U","L","D">> >>,
     << <<"W","H","A","T","'","S">>, <<"W","H","A","T"," ","I","S">> >>,
     << <<"W","H","A","T","'","L","L">>, <<"W","H","A","T"," ","W","I","L","L">> >>,
     << <<"W","H","A","T","'","D">>, <<"W","H","A","T"," ","W","O","U","L","D">> >>,
     << <<"W","H","E","R","E","'","S">>, <<"W","H","E","R","E"," ","I","S">> >>,
     << <<"W","H","E","R","E","'","L","L">>, <<"W","H","E","R","E"," ","W","I","L","L">> >>,
     << <<"W","H","E","R","E","'","D">>, <<"W","H","E","R","E"," ","W","O","U","L","D">> >>,
     << <<"W","H","E","N","'","S">>, <<"W","H","E","N"," ","I","S">> >>,
     << <<"W","H","E","N","'","L","L">>, <<"W","H","E","N"," ","W","I","L","L">> >>,
     << <<"W","H","E","N","'","D">>, <<"W","H","E","N"," ","W","O","U","L","D">> >>,
     << <<"W","H","Y","'","S">>, <<"W","H","Y"," ","I","S">> >>,
     << <<"W","H","Y","'","L","L">>, <<"W","H","Y"," ","W","I","L","L">> >>,
     << <<"W","H","Y","'","D">>, <<"W","H","Y"," ","W","O","U","L","D">> >>,
     << <<"H","O","W","'","S">>, <<"H","O","W"," ","I","S">> >>,
     << <<"H","O","W","'","L","L">>, <<"H","O","W"," ","W","I","L","L">> >>,
     << <<"H","O","W","'","D">>, <<"H","O","W"," ","W","O","U","L","D">> >>,
     << <<"C","A","N","'","T">>, <<"C","A","N","N","O","T">> >>,
     << <<"W","O","N","'","T">>, <<"W","I","L","L"," ","N","O","T">> >>,
     << <<"D","O","N","'","T">>, <<"D","O"," ","N","O","T">> >>,
     << <<"D","O","E","S","N","'","T">>, <<"D","O","E","S"," ","N","O","T">> >>,
     << <<"D","I","D","N","'","T">>, <<"D","I","D"," ","N","O","T">> >>,
     << <<"H","A","V","E","N","'","T">>, <<"H","A","V","E"," ","N","O","T">> >>,
     << <<"H","A","S","N","'","T">>, <<"H","A","S"," ","N","O","T">> >>,
     << <<"H","A","D","N","'","T">>, <<"H","A","D"," ","N","O","T">> >>,
     << <<"A","R","E","N","'","T">>, <<"A","R","E"," ","N","O","T">> >>,
     << <<"I","S","N","'","T">>, <<"I","S"," ","N","O","T">> >>,
     << <<"W","A","S","N","'","T">>, <<"W","A","S"," ","N","O","T">> >>,
     << <<"W","E","R","E","N","'","T">>, <<"W","E","R","E"," ","N","O","T">> >>,
     << <<"S","H","O","U","L","D","N","'","T">>, <<"S","H","O","U","L","D"," ","N","O","T">> >>,
     << <<"W","O","U","L","D","N","'","T">>, <<"W","O","U","L","D"," ","N","O","T">> >>,
     << <<"C","O","U","L","D","N","'","T">>, <<"C","O","U","L","D"," ","N","O","T">> >>,
     << <<"M","I","G","H","T","N","'","T">>, <<"M","I","G","H","T"," ","N","O","T">> >>,
     << <<"M","U","S","T","N","'","T">>, <<"M","U","S","T"," ","N","O","T">> >>,
     << <<"N","E","E","D","N","'","T">>, <<"N","E","E","D"," ","N","O","T">> >>,
     << <<"'","L","L">>, <<"W","I","L","L">> >>,
     << <<"'","V","E">>, <<"H","A","V","E">> >>,
     << <<"'","R","E">>, <<"A","R","E">> >>,
     << <<"'","D">>, <<"W","O","U","L","D">> >>,
     << <<"L","E","T","'","S">>, <<"L","E","T"," ","U","S">> >>,
     << <<"A","I","N","'","T">>, <<"I","S"," ","N","O","T">> >> >>

CONTRACTIONS == DictOf(CONTRACTIONS_PAIRS)

(***************************************************************************)
(* ATCTextNormalizer.__init__: the instance is a record of its switches    *)
(* and of the entries its own copies of the two tables hold on top of the  *)
(* class tables.                                                           *)
(***************************************************************************)
\* dict.update: the entries of overrides replace or extend those of base.
DictUpdate(base, overrides) ==
  [ k \in DOMAIN base \cup DOMAIN overrides |->
      IF k \in DOMAIN overrides THEN overrides[k] ELSE base[k] ]

NoCustom == [ k \in {} |-> <<>> ]

\* The values of output_case, as texts.
CaseUpper == << "u","p","p","e","r" >>

CaseLower == << "l","o","w","e","r" >>

CasePreserve == << "p","r","e","s","e","r","v","e" >>

ATCTextNormalizer(switches, output_case, custom_corrections, custom_contractions) ==
  [ apply_spelling_corrections |-> switches.apply_spelling_corrections,
    normalize_diacritics       |-> switches.normalize_diacritics,
    expand_phonetic_letters    |-> switches.expand_phonetic_letters,
    expand_numbers             |-> switches.expand_numbers,
    expand_contractions        |-> switches.expand_contractions,
    uppercase                  |-> switches.uppercase,
    remove_tags                |-> switches.remove_tags,
    remove_punctuation         |-> switches.remove_punctuation,
    output_case                |-> IF output_case = <<>> THEN CaseUpper
                                   ELSE str_lower(output_case),
    custom_corrections         |-> custom_corrections,
    custom_contractions        |-> custom_contractions ]

\* self.spelling_corrections: SPELLING_CORRECTIONS.copy(), then update(custom).
spelling_corrections(self) == DictUpdate(SPELLING_CORRECTIONS, self.custom_corrections)

\* self.contractions: CONTRACTIONS.copy(), then update(custom).
contractions(self) == DictUpdate(CONTRACTIONS, self.custom_contractions)

\* The default values of the constructor's switches.
DefaultSwitches ==
  [ apply_spelling_corrections |-> TRUE,
    normalize_diacritics       |-> TRUE,
    expand_phonetic_letters    |-> TRUE,
    expand_numbers             |-> TRUE,
    expand_contractions        |-> TRUE,
    uppercase                  |-> TRUE,
    remove_tags                |-> TRUE,
    remove_punctuation         |-> TRUE ]

DefaultNormalizer == ATCTextNormalizer(DefaultSwitches, CaseUpper, NoCustom, NoCustom)

LowerNormalizer == ATCTextNormalizer(DefaultSwitches, CaseLower, NoCustom, NoCustom)

(***************************************************************************)
(* _preprocess_special_patterns.                                           *)
(***************************************************************************)
\* re.sub(r'\s*->\s*', ' TO ', text) and re.sub(r'\s*<-\s*', ' FROM ', text):
\* arrow is the two-character glyph, repl its replacement.
RECURSIVE SubArrow(_, _, _, _)
SubArrow(t, i, arrow, repl) ==
  IF i > Len(t) THEN <<>>
  ELSE LET j == RunEnd(t, i, SpaceSet)
       IN  IF MatchesAt(t, j, arrow)
           THEN repl \o SubArrow(t, RunEnd(t, j + 2, SpaceSet), arrow, repl)
           ELSE LET n == Find(t, i + 1, SpaceSet \cup { arrow[1] })
                IN  SubSeq(t, i, n - 1) \o SubArrow(t, n, arrow, repl)

\* The callback of the round-thousand rule: thousands is the 1 or 2 digits.
expand_thousands(thousands) ==
  LET THOUSAND == << " ","T","H","O","U","S","A","N","D" >>
      digit_words ==
        [ d \in { "1","2","3","4","5","6","7","8","9" } |->
            CASE d = "1" -> << "O","N","E" >>
              [] d = "2" -> << "T","W","O" >>
              [] d = "3" -> << "T","H","R","E","E" >>
              [] d = "4" -> << "F","O","U","R" >>
              [] d = "5" -> << "F","I","V","E" >>
              [] d = "6" -> << "S","I","X" >>
              [] d = "7" -> << "S","E","V","E","N" >>
              [] d = "8" -> << "E","I","G","H","T" >>
              [] d = "9" -> << "N","I","N","E" >> ]
      teens ==
        [ d \in DigitSet |->
            CASE d = "0" -> << "T","E","N" >>
              [] d = "1" -> << "E","L","E","V","E","N" >>
              [] d = "2" -> << "T","W","E","L","V","E" >>
              [] d = "3" -> << "T","H","I","R","T","E","E","N" >>
              [] d = "4" -> << "F","O","U","R","T","E","E","N" >>
              [] d = "5" -> << "F","I","F","T","E","E","N" >>
              [] d = "6" -> << "S","I","X","T","E","E","N" >>
              [] d = "7" -> << "S","E","V","E","N","T","E","E","N" >>
              [] d = "8" -> << "E","I","G","H","T","E","E","N" >>
              [] d = "9" -> << "N","I","N","E","T","E","E","N" >> ]
      tens ==
        [ d \in { "2","3","4","5","6","7","8","9" } |->
            CASE d = "2" -> << "T","W","E","N","T","Y" >>
              [] d = "3" -> << "T","H","I","R","T","Y" >>
              [] d = "4" -> << "F","O","R","T","Y" >>
              [] d = "5" -> << "F","I","F","T","Y" >>
              [] d = "6" -> << "S","I","X","T","Y" >>
              [] d = "7" -> << "S","E","V","E","N","T","Y" >>
              [] d = "8" -> << "E","I","G","H","T","Y" >>
              [] d = "9" -> << "N","I","N","E","T","Y" >> ]
      zeros == << "0","0","0" >>
  IN  IF Len(thousands) = 1
      THEN (IF thousands[1] \in DOMAIN digit_words
            THEN digit_words[thousands[1]] ELSE thousands) \o THOUSAND
      ELSE IF Len(thousands) = 2
      THEN IF thousands[1] = "1" THEN teens[thousands[2]] \o THOUSAND
           ELSE IF thousands[1] \in DOMAIN tens /\ thousands[2] = "0"
           THEN tens[thousands[1]] \o THOUSAND
           ELSE thousands \o zeros
      ELSE thousands \o zeros

\* re.sub(r'\b(\d{1,2}),000\b', expand_thousands, text).
RECURSIVE SubThousands(_, _)
SubThousands(t, i) ==
  IF i > Len(t) THEN <<>>
  ELSE LET e == RunEnd(t, i, DigitSet)
       IN  IF /\ AtWordStart(t, i)
              /\ e - i \in 1..2
              /\ MatchesAt(t, e, << ",","0","0","0" >>)
              /\ AtWordEnd(t, e + 4)
           THEN expand_thousands(SubSeq(t, i, e - 1)) \o SubThousands(t, e + 4)
           ELSE LET n == Find(t, i + 1, DigitSet)
                IN  SubSeq(t, i, n - 1) \o SubThousands(t, n)

\* re.sub(r'(\d+),(\d{3})', r'\1\2', text).
RECURSIVE SubCommas(_, _)
SubCommas(t, i) ==
  IF i > Len(t) THEN <<>>
  ELSE IF t[i] \notin DigitSet
  THEN LET n == Find(t, i + 1, DigitSet)
       IN  SubSeq(t, i, n - 1) \o SubCommas(t, n)
  ELSE LET e == RunEnd(t, i, DigitSet)
       IN  IF /\ e + 3 <= Len(t)
              /\ t[e] = ","
              /\ AllIn(t, e + 1, e + 3, DigitSet)
           THEN SubSeq(t, i, e - 1) \o SubSeq(t, e + 1, e + 3) \o SubCommas(t, e + 4)
           ELSE SubSeq(t, i, e - 1) \o SubCommas(t, e)

\* Where a scan for a pattern that starts with \b and a letter goes on after no
\* match at i: the end of the word i is in, or the start of the next word.
NextWordEdge(t, i) ==
  IF t[i] \in WordSet THEN RunEnd(t, i, WordSet) ELSE Find(t, i + 1, WordSet)

\* re.sub(r'\b([A-Z]{1,3})-(\d{1,3})\b', r'\1 \2', text).
RECURSIVE SubTypeCodes(_, _)
SubTypeCodes(t, i) ==
  IF i > Len(t) THEN <<>>
  ELSE LET a == RunEnd(t, i, AZSet)
           d == RunEnd(t, a + 1, DigitSet)
       IN  IF /\ AtWordStart(t, i)
              /\ a - i \in 1..3
              /\ a <= Len(t) /\ t[a] = "-"
              /\ d - (a + 1) \in 1..3
              /\ AtWordEnd(t, d)
           THEN SubSeq(t, i, a - 1) \o << " " >> \o SubSeq(t, a + 1, d - 1)
                  \o SubTypeCodes(t, d)
           ELSE LET n == NextWordEdge(t, i)
                IN  SubSeq(t, i, n - 1) \o SubTypeCodes(t, n)

\* The three callsign substitutions: a whole word made of nl letters, nd digits
\* and ns letters, with nl in NL, nd in ND and ns in NS, is replaced by its
\* characters separated by single spaces (expand_mixed_callsign,
\* expand_callsign, expand_callsign_with_suffix).
RECURSIVE SubCallsign(_, _, _, _, _)
SubCallsign(t, i, NL, ND, NS) ==
  IF i > Len(t) THEN <<>>
  ELSE LET a == RunEnd(t, i, AZSet)
           d == RunEnd(t, a, DigitSet)
           s == RunEnd(t, d, AZSet)
       IN  IF /\ AtWordStart(t, i)
              /\ a - i \in NL
              /\ d - a \in ND
              /\ s - d \in NS
              /\ AtWordEnd(t, s)
           THEN Spaced(SubSeq(t, i, s - 1)) \o SubCallsign(t, s, NL, ND, NS)
           ELSE LET n == NextWordEdge(t, i)
                IN  SubSeq(t, i, n - 1) \o SubCallsign(t, n, NL, ND, NS)

\* A faulty variant: the middle group written \d{2,4} as in the two other
\* sub-patterns.
mixed_callsign_two_digits(t) == SubCallsign(t, 1, 1..2, 2..4, 1..3)

\* r'\b([A-Z]{1,2})(\d{1,4})([A-Z]{1,3})\b'
mixed_callsign(t) == SubCallsign(t, 1, 1..2, 1..4, 1..3)

\* r'\b([A-Z]{1,4})(\d{2,4})\b'
plain_callsign(t) == SubCallsign(t, 1, 1..4, 2..4, {0})

\* r'\b([A-Z]{1,4})(\d{2,4})([A-Z])\b'
suffix_callsign(t) == SubCallsign(t, 1, 1..4, 2..4, {1})

arrows(t) ==
  SubArrow(SubArrow(t, 1, << "-", ">" >>, << " ","T","O"," " >>),
           1, << "<", "-" >>, << " ","F","R","O","M"," " >>)

thousands_separators(t) == SubCommas(SubThousands(t, 1), 1)

type_codes(t) == SubTypeCodes(t, 1)

_preprocess_special_patterns(t) ==
  suffix_callsign(plain_callsign(mixed_callsign(
    type_codes(thousands_separators(arrows(t))))))

(***************************************************************************)
(* _remove_diacritics and _remove_tags.                                    *)
(***************************************************************************)
\* NFD, then the combining marks dropped: an accented letter loses its accent.
_remove_diacritics(t) ==
  [ i \in 1..Len(t) |->
      CASE t[i] = "E_ACUTE" -> "E"
        [] t[i] = "e_acute" -> "e"
        [] OTHER -> t[i] ]

\* re.sub(tag, '', text, flags=re.IGNORECASE) for an escaped literal tag.
RECURSIVE RemoveLiteral(_, _, _)
RemoveLiteral(t, i, tag) ==
  IF i > Len(t) THEN <<>>
  ELSE IF MatchesAtCI(t, i, tag) THEN RemoveLiteral(t, i + Len(tag), tag)
  ELSE LET n == Find(t, i + 1, { CharUpper(tag[1]), CharLower(tag[1]) })
       IN  SubSeq(t, i, n - 1) \o RemoveLiteral(t, n, tag)

RECURSIVE RemoveTagsFrom(_, _)
RemoveTagsFrom(t, k) ==
  IF k > Len(REMOVABLE_TAGS) THEN t
  ELSE LET removed == RemoveLiteral(t, 1, REMOVABLE_TAGS[k])
       IN  IF removed = removed THEN RemoveTagsFrom(removed, k + 1) ELSE removed

_remove_tags(t) == RemoveTagsFrom(t, 1)

(***************************************************************************)
(* _expand_phonetic_letters.                                               *)
(***************************************************************************)
EXCLUDED_WORDS == { "I", "A" }

LEFT_RIGHT_CENTER ==
  [ c \in { "L", "R", "C" } |->
      CASE c = "L" -> << "L","E","F","T" >>
        [] c = "R" -> << "R","I","G","H","T" >>
        [] c = "C" -> << "C","E","N","T","E","R" >> ]

\* PHONETIC_ALPHABET.get(letter, letter)
phonetic_get(letter) ==
  IF << letter >> \in DOMAIN PHONETIC_ALPHABET
  THEN PHONETIC_ALPHABET[<< letter >>] ELSE << letter >>

\* A faulty variant: the runway test placed after the digits+letter test, which then
\* takes every runway designator first.
is_runway_designator_shadowed(clean_word) == FALSE

\* re.match(r'^\d{2}[LRC]$', clean_word)
is_runway_designator(clean_word) ==
  /\ Len(clean_word) = 3
  /\ AllIn(clean_word, 1, 2, DigitSet)
  /\ clean_word[3] \in { "L", "R", "C" }

\* The body of the loop over text.split(): what is appended for one word.
expand_word(word) ==
  LET cut           == TrailStart(word, AlnumSet)
      clean_word    == SubSeq(word, 1, cut - 1)
      trailing_punct == SubSeq(word, cut, Len(word))
      n             == Len(clean_word)
  IN  IF clean_word = <<>> THEN word
      ELSE IF /\ n = 1
              /\ clean_word[1] \in AlphaSet
              /\ << CharUpper(clean_word[1]) >> \in DOMAIN PHONETIC_ALPHABET
      THEN IF CharUpper(clean_word[1]) \in EXCLUDED_WORDS
           THEN word
           ELSE PHONETIC_ALPHABET[<< CharUpper(clean_word[1]) >>] \o trailing_punct
      ELSE IF is_runway_designator(clean_word)
      THEN SubSeq(clean_word, 1, 2) \o << " " >>
             \o LEFT_RIGHT_CENTER[clean_word[3]] \o trailing_punct
      \* r'^[A-Z]\d+$'
      ELSE IF /\ n >= 2
              /\ clean_word[1] \in AZSet
              /\ AllIn(clean_word, 2, n, DigitSet)
      THEN phonetic_get(clean_word[1]) \o << " " >>
             \o SubSeq(clean_word, 2, n) \o trailing_punct
      \* r'^\d+[A-Z]$'
      ELSE IF /\ n >= 2
              /\ AllIn(clean_word, 1, n - 1, DigitSet)
              /\ clean_word[n] \in AZSet
      THEN SubSeq(clean_word, 1, n - 1) \o << " " >>
             \o phonetic_get(clean_word[n]) \o trailing_punct
      ELSE word

_expand_phonetic_letters(t) ==
  LET words == str_split(t)
  IN  Join([ k \in 1..Len(words) |-> expand_word(words[k]) ], << " " >>)

(***************************************************************************)
(* _expand_numbers.                                                        *)
(***************************************************************************)
\* ' '.join(self.NUMBER_WORDS.get(d, d) for d in digits)
digit_by_digit(digits) ==
  Join([ k \in 1..Len(digits) |->
           IF << digits[k] >> \in DOMAIN NUMBER_WORDS
           THEN NUMBER_WORDS[<< digits[k] >>] ELSE << digits[k] >> ],
       << " " >>)

\* expand_number_match on a match of \d+\.\d+ (is_decimal) or of \d+.
expand_number_match(integer_part, decimal_part, is_decimal) ==
  IF is_decimal
  THEN digit_by_digit(integer_part)
         \o << " ","D","E","C","I","M","A","L"," " >>
         \o digit_by_digit(decimal_part)
  ELSE digit_by_digit(integer_part)

\* A faulty variant: the first alternative written \d+\.\d*, which takes a period that
\* no digit follows.
decimal_point_at_any_period(t, e) == e <= Len(t) /\ t[e] = "."

\* The first alternative, \d+\.\d+, matches a digit run that ends before e:
\* a period at e with a digit after it.
decimal_point_at(t, e) ==
  e + 1 <= Len(t) /\ t[e] = "." /\ t[e + 1] \in DigitSet

\* re.sub(r'\d+\.\d+|\d+', expand_number_match, text)
RECURSIVE SubNumbers(_, _)
SubNumbers(t, i) ==
  IF i > Len(t) THEN <<>>
  ELSE IF t[i] \notin DigitSet
  THEN LET n == Find(t, i + 1, DigitSet)
       IN  SubSeq(t, i, n - 1) \o SubNumbers(t, n)
  ELSE LET e == RunEnd(t, i, DigitSet)
           f == RunEnd(t, e + 1, DigitSet)
       IN  IF decimal_point_at(t, e)
           THEN expand_number_match(SubSeq(t, i, e - 1), SubSeq(t, e + 1, f - 1), TRUE)
                  \o SubNumbers(t, f)
           ELSE expand_number_match(SubSeq(t, i, e - 1), <<>>, FALSE)
                  \o SubNumbers(t, e)

_expand_numbers(t) == SubNumbers(t, 1)

(***************************************************************************)
(* _expand_contractions, _apply_spelling_corrections, _remove_punctuation, *)
(* _clean_whitespace.                                                      *)
(***************************************************************************)
\* Whether the word ends in 'S.
ends_with_possessive(word) ==
  Len(word) >= 2 /\ word[Len(word) - 1] = "'" /\ word[Len(word)] = "S"

\* A faulty variant: the test for a possessive comes before the look-up in the
\* table.
_expand_contractions_possessive_first(self, t) ==
  LET words == str_split(t)
  IN  Join([ k \in 1..Len(words) |->
               IF ends_with_possessive(words[k]) THEN words[k]
               ELSE IF words[k] \in DOMAIN contractions(self)
               THEN contractions(self)[words[k]] ELSE words[k] ],
           << " " >>)

\* Both branches that do not find the word in the table append it unchanged.
_expand_contractions(self, t) ==
  LET words == str_split(t)
  IN  Join([ k \in 1..Len(words) |->
               IF words[k] \in DOMAIN contractions(self)
               THEN contractions(self)[words[k]] ELSE words[k] ],
           << " " >>)

\* A faulty variant: a word the table does not hold is dropped.
_apply_spelling_corrections_known_only(self, t) ==
  LET words == str_split(t)
      known == SelectSeq(words, LAMBDA w : w \in DOMAIN spelling_corrections(self))
  IN  Join([ k \in 1..Len(known) |-> spelling_corrections(self)[known[k]] ], << " " >>)

_apply_spelling_corrections(self, t) ==
  LET words == str_split(t)
  IN  Join([ k \in 1..Len(words) |->
               IF words[k] \in DOMAIN spelling_corrections(self)
               THEN spelling_corrections(self)[words[k]] ELSE words[k] ],
           << " " >>)

\* re.sub(r'[^\w\s]', '', text)
_remove_punctuation(t) == SelectSeq(t, LAMBDA c : c \in WordSet \cup SpaceSet)

\* re.sub(r'\s+', ' ', text)
RECURSIVE CollapseSpaces(_, _)
CollapseSpaces(t, i) ==
  IF i > Len(t) THEN <<>>
  ELSE IF t[i] \in SpaceSet
  THEN << " " >> \o CollapseSpaces(t, RunEnd(t, i, SpaceSet))
  ELSE LET n == Find(t, i + 1, SpaceSet)
       IN  SubSeq(t, i, n - 1) \o CollapseSpaces(t, n)

_clean_whitespace(t) == str_strip(CollapseSpaces(t, 1))

(***************************************************************************)
(* normalize_text: the stages in the order of the source, each behind its  *)
(* switch.  StageN(self, text) is the text after the first N stages.       *)
(***************************************************************************)
\* text = f(text): Python computes the text of the previous stage before the
\* stage runs; so does the test t = t in the stages below.
Stage1(self, text) == IF self.uppercase THEN str_upper(text) ELSE text

\* text = stage(text) behind its switch; the text is a value before the stage
\* starts.
Then(t, enabled, stage(_)) == IF t = t /\ enabled THEN stage(t) ELSE t

Stage2(self, text) == Then(Stage1(self, text), TRUE, _preprocess_special_patterns)

Stage3(self, text) == Then(Stage2(self, text), self.normalize_diacritics, _remove_diacritics)

Stage4(self, text) == Then(Stage3(self, text), self.remove_tags, _remove_tags)

Stage5(self, text) ==
  Then(Stage4(self, text), self.expand_phonetic_letters, _expand_phonetic_letters)

\* A faulty variant: number expansion before phonetic letter expansion.
Stage6_numbers_first(self, text) ==
  Then(Then(Stage4(self, text), self.expand_numbers, _expand_numbers),
       self.expand_phonetic_letters, _expand_phonetic_letters)

Stage6(self, text) == Then(Stage5(self, text), self.expand_numbers, _expand_numbers)

Stage7(self, text) ==
  Then(Stage6(self, text), self.expand_contractions,
       LAMBDA t : _expand_contractions(self, t))

Stage8(self, text) ==
  Then(Stage7(self, text), self.apply_spelling_corrections,
       LAMBDA t : _apply_spelling_corrections(self, t))

Stage9(self, text) == Then(Stage8(self, text), self.remove_punctuation, _remove_punctuation)

Stage10(self, text) == Then(Stage9(self, text), TRUE, _clean_whitespace)

\* A faulty variant: the uppercase switch decides the final case.
final_case_by_switch(self, text) ==
  IF self.uppercase THEN str_upper(text)
  ELSE IF self.output_case = CaseLower THEN str_lower(text)
  ELSE text

final_case(self, text) ==
  IF self.output_case = CaseLower THEN str_lower(text)
  ELSE IF self.output_case = CaseUpper THEN str_upper(text)
  ELSE text

normalize_text(self, text) ==
  IF text = <<>> THEN text
  ELSE Then(Stage10(self, text), TRUE, LAMBDA t : final_case(self, t))

\* The statements of normalize_text after the test for an empty text, in the
\* order of the source.
STAGE_ORDER ==
  << "case fold", "special patterns", "diacritics", "tags", "phonetic letters",
     "numbers", "contractions", "spelling", "punctuation", "whitespace", "final case" >>

\* One statement of normalize_text: a stage, if its switch is on.
ApplyStage(stage, self, t) ==
  CASE stage = "case fold" -> IF self.uppercase THEN str_upper(t) ELSE t
    [] stage = "special patterns" -> _preprocess_special_patterns(t)
    [] stage = "diacritics" -> IF self.normalize_diacritics THEN _remove_diacritics(t) ELSE t
    [] stage = "tags" -> IF self.remove_tags THEN _remove_tags(t) ELSE t
    [] stage = "phonetic letters" ->
         IF self.expand_phonetic_letters THEN _expand_phonetic_letters(t) ELSE t
    [] stage = "numbers" -> IF self.expand_numbers THEN _expand_numbers(t) ELSE t
    [] stage = "contractions" ->
         IF self.expand_contractions THEN _expand_contractions(self, t) ELSE t
    [] stage = "spelling" ->
         IF self.apply_spelling_corrections THEN _apply_spelling_corrections(self, t) ELSE t
    [] stage = "punctuation" -> IF self.remove_punctuation THEN _remove_punctuation(t) ELSE t
    [] stage = "whitespace" -> _clean_whitespace(t)
    [] stage = "final case" ->
         IF self.output_case = CaseLower THEN str_lower(t)
         ELSE IF self.output_case = CaseUpper THEN str_upper(t) ELSE t

(***************************************************************************)
(* TransmissionFilter (src/src/preprocessing/filters.py).  A pattern is    *)
(* the string given to re.compile; the compiled pattern is known by it.    *)
(***************************************************************************)
None == "None"

\* max_length is a one-element tuple, or the empty tuple for None.
NoLimit == <<>>

Limit(n) == << n >>

\* The file of manual exclusions: whether it exists, and its content.
NoFile == [ exists |-> FALSE, content |-> <<>> ]

FileOf(content) == [ exists |-> TRUE, content |-> content ]

EXCLUSIONS_PATH == "manual_exclusions.txt"

DEFAULT_EXCLUSION_TAGS ==
  << "\\[NO_ENG\\]",
     "\\[\\|_NO_ENG\\]",
     "\\[CZECH_\\]",
     "\\[FRENCH_\\]",
     "\\[GERMAN_\\]",
     "\\[SPANISH_\\]",
     "\\[UNINTELLIGIBLE\\]",
     "\\[\\|_UNINTELLIGIBLE\\]",
     "\\[CROSSTALK\\]",
     "\\[NOISE\\]",
     "\\[STATIC\\]",
     "\\[REDACTED\\]",
     "\\[UNCLEAR\\]" >>

QUALITY_PATTERNS ==
  << "\\[.*\\?\\]",
     "\\(\\?\\)",
     "<UNK>",
     "<unk>",
     "\\*\\*\\*",
     "---" >>

PatternLiteral ==
  ( "\\[NO_ENG\\]" :> <<"[","N","O","_","E","N","G","]">> @@
     "\\[\\|_NO_ENG\\]" :> <<"[","|","_","N","O","_","E","N","G","]">> @@
     "\\[CZECH_\\]" :> <<"[","C","Z","E","C","H","_","]">> @@
     "\\[FRENCH_\\]" :> <<"[","F","R","E","N","C","H","_","]">> @@
     "\\[GERMAN_\\]" :> <<"[","G","E","R","M","A","N","_","]">> @@
     "\\[SPANISH_\\]" :> <<"[","S","P","A","N","I","S","H","_","]">> @@
     "\\[UNINTELLIGIBLE\\]" :> <<"[","U","N","I","N","T","E","L","L","I","G","I","B","L","E","]">> @@
     "\\[\\|_UNINTELLIGIBLE\\]" :> <<"[","|","_","U","N","I","N","T","E","L","L","I","G","I","B","L","E","]">> @@
     "\\[CROSSTALK\\]" :> <<"[","C","R","O","S","S","T","A","L","K","]">> @@
     "\\[NOISE\\]" :> <<"[","N","O","I","S","E","]">> @@
     "\\[STATIC\\]" :> <<"[","S","T","A","T","I","C","]">> @@
     "\\[REDACTED\\]" :> <<"[","R","E","D","A","C","T","E","D","]">> @@
     "\\[UNCLEAR\\]" :> <<"[","U","N","C","L","E","A","R","]">> @@
     "\\(\\?\\)" :> <<"(","?",")">> @@
     "<UNK>" :> <<"<","U","N","K",">">> @@
     "<unk>" :> <<"<","u","n","k",">">> @@
     "\\*\\*\\*" :> <<"*","*","*">> @@
     "---" :> <<"-","-","-">> )

\* The two comment lines and the blank line save_manual_exclusions writes first.
HEADER_1 ==
  <<"#"," ","M","a","n","u","a","l"," ","E","x","c","l","u","s","i","o","n","s"," ","-"," ","O","n","e"," ","p","e","r"," ","l","i","n","e","\n">>

HEADER_2 ==
  <<"#"," ","L","i","n","e","s"," ","s","t","a","r","t","i","n","g"," ","w","i","t","h"," ","#"," ","a","r","e"," ","c","o","m","m","e","n","t","s","\n","\n">>

\* Code point order of the characters (sorted() compares strings by it).
CODE_ORDER ==
  << "\t", "\n", " ", "#", "'", "(", ")", "*", ",", "-", ".",
     "0", "1", "2", "3", "4", "5", "6", "7", "8", "9", "<", ">", "?" >>
  \o UPPER \o << "[", "]", "_" >> \o LOWER \o << "|", "E_ACUTE", "e_acute" >>

Ord(c) == CHOOSE k \in DOMAIN CODE_ORDER : CODE_ORDER[k] = c

\* a < b for two strings.
StrLess(a, b) ==
  \E k \in 1..Len(b) :
    /\ \A j \in 1..k - 1 : j <= Len(a) /\ a[j] = b[j]
    /\ (k > Len(a) \/ (k - 1 < Len(a) /\ Ord(a[k]) < Ord(b[k])))

\* sorted(S)
RECURSIVE sorted(_)
sorted(S) ==
  IF S = {} THEN <<>>
  ELSE LET least == CHOOSE a \in S : \A b \in S \ { a } : StrLess(a, b)
       IN  << least >> \o sorted(S \ { least })

\* pattern.search(text) for a pattern compiled with re.IGNORECASE.  In
\* r'\[.*\?\]' the dot matches any character but a newline.
pattern_search(pattern, t) ==
  IF pattern = "\\[.*\\?\\]"
  THEN \E i \in 1..Len(t), j \in 1..Len(t) - 1 :
         /\ i < j
         /\ t[i] = "[" /\ t[j] = "?" /\ t[j + 1] = "]"
         /\ \A k \in i + 1..j - 1 : t[k] # "\n"
  ELSE \E i \in 1..Len(t) : MatchesAtCI(t, i, PatternLiteral[pattern])

\* Patterns re.compile rejects with re.error: an unterminated character set,
\* an unterminated group, a repeat with nothing before it.
MALFORMED_PATTERNS == { "[", "(", "*" }

\* re.compile(pattern, re.IGNORECASE) raises re.error.
re_compile_raises(pattern) == pattern \in MALFORMED_PATTERNS

\* TransmissionFilter.__init__ raises: the one statement of it that can is the
\* compilation of the exclusion tags.
TransmissionFilter_raises(exclusion_tags) ==
  /\ exclusion_tags # None
  /\ \E k \in DOMAIN exclusion_tags : re_compile_raises(exclusion_tags[k])

\* ATCTextNormalizer.__init__ raises: no statement of it does, whatever the
\* output_case.
ATCTextNormalizer_raises(output_case) == FALSE

\* The callables the model gives as custom_filter: each returns True to keep.
custom_filter_keeps(custom_filter, t) ==
  CASE custom_filter = "keep_all"  -> TRUE
    [] custom_filter = "keep_none" -> FALSE

\* for line in f: the lines of a file, each without its terminator.
RECURSIVE FileLines(_, _)
FileLines(content, i) ==
  IF i > Len(content) THEN <<>>
  ELSE LET e == RunEnd(content, i, { c \in Range(content) : c # "\n" })
       IN  << SubSeq(content, i, e - 1) >> \o FileLines(content, e + 1)

\* _load_manual_exclusions: what the loop adds to self.manual_exclusions, fs
\* being the file at the path.
_load_manual_exclusions(fs) ==
  IF ~fs.exists THEN {}
  ELSE LET lines == FileLines(fs.content, 1)
       IN  { str_upper(str_strip(lines[k])) :
               k \in { k \in DOMAIN lines :
                         /\ str_strip(lines[k]) # <<>>
                         /\ str_strip(lines[k])[1] # "#" } }

\* __init__.  manual_exclusions_file is None or a path, fs the file at that path.
TransmissionFilter(exclusion_tags, exclude_quality_issues, min_length, max_length, custom_filter, manual_exclusions_file, fs) ==
  LET tags == IF exclusion_tags = None THEN DEFAULT_EXCLUSION_TAGS ELSE exclusion_tags
  IN  [ exclusion_tags         |-> tags,
        exclude_quality_issues |-> exclude_quality_issues,
        min_length             |-> min_length,
        max_length             |-> max_length,
        custom_filter          |-> custom_filter,
        manual_exclusions      |-> IF manual_exclusions_file \notin { None, "" }
                                   THEN _load_manual_exclusions(fs) ELSE {},
        exclusion_patterns     |-> tags,
        quality_patterns       |-> IF exclude_quality_issues
                                   THEN QUALITY_PATTERNS ELSE <<>> ]

\* (True, reason): the reason is its rule and what follows "rule: ", the pattern
\* of a tag or quality rule or the "<n> words" of a length rule.
Excluded(rule) == [ excluded |-> TRUE, rule |-> rule, pattern |-> "", words |-> <<>> ]

ExcludedByPattern(rule, pattern) ==
  [ excluded |-> TRUE, rule |-> rule, pattern |-> pattern, words |-> <<>> ]

ExcludedByLength(rule, word_count) ==
  [ excluded |-> TRUE, rule |-> rule, pattern |-> "", words |-> << word_count >> ]

\* (False, "")
NotExcluded == [ excluded |-> FALSE, rule |-> "", pattern |-> "", words |-> <<>> ]

\* The first pattern of the list that is found in the text, or None.
first_match(patterns, t) ==
  LET hits == { k \in DOMAIN patterns : pattern_search(patterns[k], t) }
  IN  IF hits = {} THEN None ELSE patterns[SetMin(hits)]

\* A faulty variant: the comparison written <=.
too_short_inclusive(self, word_count) == word_count <= self.min_length

\* word_count < self.min_length
too_short(self, word_count) == word_count < self.min_length

\* self.max_length and word_count > self.max_length: None and 0 are both false.
too_long(self, word_count) ==
  /\ self.max_length # NoLimit
  /\ self.max_length[1] # 0
  /\ word_count > self.max_length[1]

should_exclude(self, t) ==
  LET word_count == Len(str_split(t))
      tag        == first_match(self.exclusion_patterns, t)
      quality    == first_match(self.quality_patterns, t)
  IN  IF t = <<>> \/ str_strip(t) = <<>> THEN Excluded("empty")
      ELSE IF str_upper(t) \in self.manual_exclusions
      THEN Excluded("manual_exclusion")
      ELSE IF tag # None THEN ExcludedByPattern("exclusion_tag", tag)
      ELSE IF quality # None THEN ExcludedByPattern("quality_issue", quality)
      ELSE IF too_short(self, word_count) THEN ExcludedByLength("too_short", word_count)
      ELSE IF too_long(self, word_count) THEN ExcludedByLength("too_long", word_count)
      ELSE IF self.custom_filter # None /\ ~custom_filter_keeps(self.custom_filter, t)
      THEN Excluded("custom_filter")
      ELSE NotExcluded

\* add_manual_exclusion: the instance after the call.
add_manual_exclusion(self, t) ==
  [ self EXCEPT !.manual_exclusions = @ \cup { str_upper(t) } ]

\* save_manual_exclusions: the file after the call.
save_manual_exclusions(self) ==
  FileOf(HEADER_1 \o HEADER_2
           \o Join([ k \in 1..Cardinality(self.manual_exclusions) |->
                       sorted(self.manual_exclusions)[k] \o << "\n" >> ], <<>>))

\* A faulty variant: d[key] = 1
Overwrite(d, key) ==
  [ k \in DOMAIN d \cup { key } |-> IF k = key THEN 1 ELSE d[k] ]

\* d[key] = d.get(key, 0) + 1
Increment(d, key) ==
  [ k \in DOMAIN d \cup { key } |->
      (IF k \in DOMAIN d THEN d[k] ELSE 0) + (IF k = key THEN 1 ELSE 0) ]

\* filter_texts(texts): the texts should_exclude keeps, in their order.
filter_texts(self, texts) ==
  SelectSeq(texts, LAMBDA t : ~should_exclude(self, t).excluded)

\* filter_texts(texts, return_reasons=True): the excluded texts, each with its
\* reason.
RECURSIVE filter_texts_reasons(_, _, _)
filter_texts_reasons(self, texts, i) ==
  IF i > Len(texts) THEN <<>>
  ELSE LET result == should_exclude(self, texts[i])
       IN  (IF result.excluded THEN << << texts[i], result >> >> ELSE <<>>)
             \o filter_texts_reasons(self, texts, i + 1)

\* The loop of filter_stats from text i on; a reason is what should_exclude
\* returned with True.
RECURSIVE count_exclusions(_, _, _, _)
count_exclusions(self, texts, i, counted) ==
  IF i > Len(texts) THEN counted
  ELSE LET result == should_exclude(self, texts[i])
       IN  IF result = result /\ result.excluded
           THEN count_exclusions(self, texts, i + 1,
                  [ excluded |-> counted.excluded + 1,
                    reasons  |-> Increment(counted.reasons, result) ])
           ELSE count_exclusions(self, texts, i + 1, counted)

\* filter_stats(texts); the rate is the fraction << excluded, total >>.
filter_stats(self, texts) ==
  LET total   == Len(texts)
      counted == count_exclusions(self, texts, 1, [ excluded |-> 0, reasons |-> << >> ])
  IN  [ total             |-> total,
        kept              |-> total - counted.excluded,
        excluded          |-> counted.excluded,
        exclusion_rate    |-> IF total > 0 THEN << counted.excluded, total >> ELSE << 0, 1 >>,
        exclusion_reasons |-> counted.reasons ]

(***************************************************************************)
(* The audio quality scorer (src/src/analysis/audio_quality.py).  An audio *)
(* is a sequence of integer amplitudes.  A power is a fraction             *)
(* << numerator, denominator >>.  A level in decibels is either exact, a    *)
(* number of hundredths of a decibel, or 10 * log10(signal_power /          *)
(* noise_power) of two positive powers, which is finite and is kept as the  *)
(* two powers.  A confidence or a ratio rounded to three decimals is a      *)
(* number of ten-thousandths.                                               *)
(***************************************************************************)
Db(hundredths) ==
  [ raised |-> FALSE, rounded |-> FALSE, exact |-> TRUE, hundredths |-> hundredths,
    signal_power |-> << 1, 1 >>, noise_power |-> << 1, 1 >> ]

\* float(10 * np.log10(signal_power / noise_power))
DbOfRatio(signal_power, noise_power) ==
  [ raised |-> FALSE, rounded |-> FALSE, exact |-> FALSE, hundredths |-> 0,
    signal_power |-> signal_power, noise_power |-> noise_power ]

\* librosa.util.frame raised ParameterError: the call has no value.
ParameterError ==
  [ raised |-> TRUE, rounded |-> FALSE, exact |-> FALSE, hundredths |-> 0,
    signal_power |-> << 1, 1 >>, noise_power |-> << 1, 1 >> ]

\* The sum of audio[k] ** 2 for k in from..to.
RECURSIVE SumSquares(_, _, _)
SumSquares(audio, from, to) ==
  IF from > to THEN 0
  ELSE audio[from] * audio[from] + SumSquares(audio, from + 1, to)

RECURSIVE SumOver(_, _)
SumOver(energies, J) ==
  IF J = {} THEN 0
  ELSE LET j == CHOOSE x \in J : TRUE
       IN  energies[j] + SumOver(energies, J \ { j })

\* int(0.025 * sample_rate)
snr_frame_length(sample_rate) == (25 * sample_rate) \div 1000

\* int(0.010 * sample_rate)
snr_hop_length(sample_rate) == (10 * sample_rate) \div 1000

\* int(sample_rate * frame_duration_ms / 1000)
vad_frame_length(sample_rate) == (sample_rate * 30) \div 1000

\* librosa.util.frame refuses an input shorter than one frame, and a frame
\* or a hop shorter than one sample.
frame_raises(audio, frame_length, hop_length) ==
  \/ frame_length < 1
  \/ hop_length < 1
  \/ Len(audio) < frame_length

\* np.sum(frames ** 2, axis=0) over the frames librosa.util.frame cuts:
\* frame j starts hop_length samples after frame j - 1.
snr_frame_energies(audio, frame_length, hop_length) ==
  [ j \in 1..(1 + (Len(audio) - frame_length) \div hop_length) |->
      SumSquares(audio, (j - 1) * hop_length + 1,
                 (j - 1) * hop_length + frame_length) ]

\* The k-th smallest of the energies, k in 1..Len(energies).
KthSmallest(energies, k) ==
  CHOOSE v \in Range(energies) :
    /\ Cardinality({ j \in DOMAIN energies : energies[j] < v }) < k
    /\ k <= Cardinality({ j \in DOMAIN energies : energies[j] <= v })

\* 100 * np.percentile(energies, q): linear interpolation between the two
\* order statistics around the position q / 100 * (n - 1).
percentile_x100(energies, q) ==
  LET n    == Len(energies)
      lo   == (q * (n - 1)) \div 100
      frac == (q * (n - 1)) % 100
      a    == KthSmallest(energies, lo + 1)
  IN  IF frac = 0 THEN 100 * a
      ELSE 100 * a + frac * (KthSmallest(energies, lo + 2) - a)

\* frames[:, frame_energies <= noise_threshold]
noise_frames(energies) ==
  { j \in DOMAIN energies : 100 * energies[j] <= percentile_x100(energies, 10) }

\* The noise power calculate_snr estimates from the frames.
noise_power(energies, frame_length) ==
  LET noise == noise_frames(energies)
  IN  IF frame_length * Cardinality(noise) > 0
      THEN << SumOver(energies, noise), frame_length * Cardinality(noise) >>
      ELSE << SetMin(Range(energies)), frame_length >>

calculate_snr(audio, sample_rate) ==
  IF Len(audio) = 0 THEN Db(0)
  ELSE
    LET signal_power == << SumSquares(audio, 1, Len(audio)), Len(audio) >>
        frame_length == snr_frame_length(sample_rate)
        hop_length   == snr_hop_length(sample_rate)
    IN  IF frame_raises(audio, frame_length, hop_length) THEN ParameterError
        ELSE
          LET energies == snr_frame_energies(audio, frame_length, hop_length)
              noise    == noise_power(energies, frame_length)
          IN  IF noise[1] = 0 THEN Db(6000)
              ELSE DbOfRatio(signal_power, noise)

\* What langdetect.detect_langs does with a text is not the scorer's: it
\* raises LangDetectException, returns no language, or returns languages of
\* which the first has a code and a probability (in ten-thousandths).
DetectorRaises == [ kind |-> "LangDetectException", lang |-> "", prob |-> 0 ]

DetectorEmpty == [ kind |-> "empty", lang |-> "", prob |-> 0 ]

DetectorTop(lang, prob) == [ kind |-> "langs", lang |-> lang, prob |-> prob ]

Unknown == [ language |-> "unknown", confidence |-> 0 ]

detect_language(transcript, detect_langs) ==
  IF Len(transcript) = 0 \/ Len(str_strip(transcript)) < 3 THEN Unknown
  ELSE IF detect_langs.kind = "LangDetectException" THEN Unknown
  ELSE IF detect_langs.kind = "langs"
       THEN [ language |-> detect_langs.lang, confidence |-> detect_langs.prob ]
  ELSE Unknown

AGGRESSIVENESS_PERCENTILES == (0 :> 20) @@ (1 :> 30) @@ (2 :> 40) @@ (3 :> 50)

\* A faulty variant: a frame at the threshold counts as speech.
is_speech_at_or_above(energy_x100, energy_threshold) == energy_x100 >= energy_threshold

\* frame_energies > energy_threshold, both times 100.
is_speech(energy_x100, energy_threshold) == energy_x100 > energy_threshold

\* The speech ratio as the fraction << speech_frames, num_frames >>.
calculate_speech_ratio(audio, sample_rate, aggressiveness) ==
  IF Len(audio) = 0 THEN << 0, 1 >>
  ELSE
    LET frame_length == vad_frame_length(sample_rate)
        num_frames   == Len(audio) \div frame_length
    IN  IF num_frames = 0 THEN << 0, 1 >>
        ELSE
          LET energies ==
                [ j \in 1..num_frames |->
                    SumSquares(audio, (j - 1) * frame_length + 1, j * frame_length) ]
              threshold_percentile ==
                IF aggressiveness \in DOMAIN AGGRESSIVENESS_PERCENTILES
                THEN AGGRESSIVENESS_PERCENTILES[aggressiveness] ELSE 40
              energy_threshold == percentile_x100(energies, threshold_percentile)
              speech_frames ==
                Cardinality({ j \in DOMAIN energies :
                                is_speech(100 * energies[j], energy_threshold) })
          IN  << speech_frames, num_frames >>

\* round(x, 2) of a level: an exact level is a number of hundredths, and the
\* level of two powers is marked as rounded.
round_db(level) == [ level EXCEPT !.rounded = TRUE ]

\* round(x, 3) of ten-thousandths, to the nearest thousandth.
round3(x) == ((x + 5) \div 10) * 10

\* round(x, 3) of a fraction, in ten-thousandths.
round3_fraction(fraction) ==
  ((2000 * fraction[1] + fraction[2]) \div (2 * fraction[2])) * 10

MetricsRaised ==
  [ raised |-> TRUE, snr_db |-> ParameterError, language |-> "",
    language_confidence |-> 0, speech_ratio |-> 0 ]

Metrics(snr_db, language, language_confidence, speech_ratio) ==
  [ raised |-> FALSE, snr_db |-> snr_db, language |-> language,
    language_confidence |-> language_confidence, speech_ratio |-> speech_ratio ]

calculate_all_metrics(audio, transcript, sample_rate, detect_langs) ==
  LET snr_db == calculate_snr(audio, sample_rate)
  IN  IF snr_db.raised THEN MetricsRaised
      ELSE
        LET lang_info    == detect_language(transcript, detect_langs)
            speech_ratio == calculate_speech_ratio(audio, sample_rate, 2)
        IN  Metrics(round_db(snr_db), lang_info.language,
                    round3(lang_info.confidence), round3_fraction(speech_ratio))

Thresholds(min_snr_db, required_language, min_language_confidence, min_speech_ratio) ==
  [ min_snr_db |-> min_snr_db, required_language |-> required_language,
    min_language_confidence |-> min_language_confidence,
    min_speech_ratio |-> min_speech_ratio ]

\* min_snr_db=15.0, required_language="en", min_language_confidence=0.8,
\* min_speech_ratio=0.6
DefaultThresholds == Thresholds(1500, "en", 8000, 6000)

\* A faulty variant: a value equal to its threshold is rejected.
passes_quality_filters_above(metrics, thresholds) ==
  /\ metrics.snr_db.hundredths > thresholds.min_snr_db
  /\ metrics.language = thresholds.required_language
  /\ metrics.language_confidence > thresholds.min_language_confidence
  /\ metrics.speech_ratio > thresholds.min_speech_ratio

\* The metrics are those of exact levels.
passes_quality_filters(metrics, thresholds) ==
  IF metrics.snr_db.hundredths < thresholds.min_snr_db THEN FALSE
  ELSE IF metrics.language # thresholds.required_language THEN FALSE
  ELSE IF metrics.language_confidence < thresholds.min_language_confidence THEN FALSE
  ELSE IF metrics.speech_ratio < thresholds.min_speech_ratio THEN FALSE
  ELSE TRUE


(***************************************************************************)
(* The state: one instance of each component, and the call in progress on  *)
(* each.  A call is one step; its result stays in the state until the      *)
(* caller takes it.                                                        *)
(***************************************************************************)
VARIABLES
  normalizer,    \* the ATCTextNormalizer instance
  text,          \* the argument of normalize_text
  normalized,    \* normalize_text(text)
  renormalized,  \* normalize_text(normalized)
  npc,           \* "unbuilt", "raised", "ready", "once" (normalized is set), "twice", "off"
  filter,        \* the TransmissionFilter instance
  ftext,         \* the argument of should_exclude, or the list of a batch call
  fresult,       \* what should_exclude, or the batch calls, returned
  fpc,           \* "idle", "returned", "saved", "reloaded", "stats", "kept", "reasons", "unbuilt", "raised", "off"
  file,          \* the file of manual exclusions
  reloaded,      \* << the filter constructed from the file >>, or << >>
  audio,         \* the samples given to the scorer
  sample_rate,   \* their sample rate
  transcript,    \* the text given to the scorer
  detect_langs,  \* what langdetect does with the transcript
  snr,           \* what calculate_snr returned
  metrics,       \* what calculate_all_metrics returned, or the gate's argument
  thresholds,    \* the gate's thresholds
  passed,        \* what passes_quality_filters returned
  qpc,           \* "ready", "snr", "scored", "metrics", "gated", "off"
  json_files,        \* add_quality_metrics: the segments of each JSON file
  transcript_files,  \* DataPreprocessor: the segments of each transcript file
  args_filter,       \* add_quality_metrics: --filter
  quality_enabled,   \* add_quality_metrics: quality_filtering.enabled
  file_i,            \* the file the batch loop is at
  seg_i,             \* the segment the inner loop is at
  updated_segments,  \* add_quality_metrics: the segments kept of the file
  output_files,      \* per input file, << what was written >> or << >>
  stats,             \* the statistics of the batch
  bpc,               \* "segments", "transcripts", "done", "escaped", "off"
  call,              \* per worker, the call it is in on the shared instances
  locals,            \* per call frame, the local variable text of normalize_text
  heap,              \* per reference, the list, dictionary or set it is
  filters,           \* per filter side by side, the references of its attributes
  normalizers,       \* per normalizer side by side, the references of its attributes
  last_call,         \* the instance and method of the last call on them
  transcripts_dir,     \* cleanup: per video id, << the segments of its JSON file >> or << >>
  audio_segments_dir,  \* cleanup: per file name << video_id, number >>, << the audio >> or << >>
  cleanup_stats,       \* cleanup: the statistics cleanup_transcripts counts
  renamed_count,       \* cleanup: the files rename_audio_files renamed
  video_i,             \* cleanup: the transcript file the loop is at
  dpc,                 \* "cleanup", "rename", "done", "off"
  processed,           \* ExtractionProgress.processed
  failed,              \* ExtractionProgress.failed
  total_videos,        \* ExtractionProgress.total_videos
  checkpoint,          \* << the data saved under the session name >> or << >>
  ppc,                 \* "tracking", "off"
  aggressiveness,      \* the level given to calculate_speech_ratio
  speech_ratio,        \* what calculate_speech_ratio returned, << speech frames, frames >>
  spc                  \* "ready", "done", "off"

nvars == << normalizer, text, normalized, renormalized, npc >>

fvars == << filter, ftext, fresult, fpc, file, reloaded >>

qvars == << audio, sample_rate, transcript, detect_langs, snr, metrics,
           thresholds, passed, qpc >>

bvars == << json_files, transcript_files, args_filter, quality_enabled, file_i,
           seg_i, updated_segments, output_files, stats, bpc >>

cvars == << call, locals >>

hvars == << heap, filters, normalizers, last_call >>

dvars == << transcripts_dir, audio_segments_dir, cleanup_stats, renamed_count,
           video_i, dpc >>

pvars == << processed, failed, total_videos, checkpoint, ppc >>

svars == << aggressiveness, speech_ratio, spc >>

yvars == << dvars, pvars, svars >>

xvars == << bvars, cvars, hvars, yvars >>

vars == << nvars, fvars, qvars, xvars >>

DefaultFilter == TransmissionFilter(None, TRUE, 3, NoLimit, None, None, NoFile)

\* No normalizer call is made.
NormalizerOff ==
  /\ normalizer = DefaultNormalizer
  /\ text = <<>>
  /\ normalized = <<>>
  /\ renormalized = <<>>
  /\ npc = "off"

\* No scorer call is made.
ScorerOff ==
  /\ audio = <<>>
  /\ sample_rate = 16000
  /\ transcript = <<>>
  /\ detect_langs = DetectorEmpty
  /\ snr = Db(0)
  /\ metrics = Metrics(Db(0), "unknown", 0, 0)
  /\ thresholds = DefaultThresholds
  /\ passed = FALSE
  /\ qpc = "off"

\* No filter call is made.
FilterOff ==
  /\ filter = DefaultFilter
  /\ ftext = <<>>
  /\ fresult = NotExcluded
  /\ fpc = "off"
  /\ file = NoFile
  /\ reloaded = <<>>

\* No batch runs.
BatchOff ==
  /\ json_files = <<>>
  /\ transcript_files = <<>>
  /\ args_filter = FALSE
  /\ quality_enabled = TRUE
  /\ file_i = 1
  /\ seg_i = 1
  /\ updated_segments = <<>>
  /\ output_files = <<>>
  /\ stats = <<>>
  /\ bpc = "off"

\* No worker calls.
WorkersOff ==
  /\ call = <<>>
  /\ locals = <<>>

\* No instances side by side.
InstancesOff ==
  /\ heap = << >>
  /\ filters = << >>
  /\ normalizers = << >>
  /\ last_call = [ instance |-> "", method |-> "" ]

\* No cleanup runs.
CleanupOff ==
  /\ transcripts_dir = << >>
  /\ audio_segments_dir = << >>
  /\ cleanup_stats = << >>
  /\ renamed_count = 0
  /\ video_i = 1
  /\ dpc = "off"

\* No progress is tracked.
ProgressOff ==
  /\ processed = {}
  /\ failed = {}
  /\ total_videos = 0
  /\ checkpoint = << >>
  /\ ppc = "off"

\* No speech ratio is asked for.
SpeechOff ==
  /\ aggressiveness = 2
  /\ speech_ratio = << 0, 1 >>
  /\ spc = "off"

YOff == CleanupOff /\ ProgressOff /\ SpeechOff

XOff == BatchOff /\ WorkersOff /\ InstancesOff /\ YOff

\* Every text of at most n characters of the alphabet.
Texts(alphabet, n) == UNION { [1..k -> alphabet] : k \in 0..n }

(***************************************************************************)
(* The normalizer's steps.                                                 *)
(***************************************************************************)
\* normalized = normalizer.normalize_text(text)
NormalizeText ==
  /\ npc = "ready"
  /\ normalized' = normalize_text(normalizer, text)
  /\ npc' = "once"
  /\ UNCHANGED << normalizer, text, renormalized, fvars, qvars, xvars >>

\* renormalized = normalizer.normalize_text(normalized)
NormalizeAgain ==
  /\ npc = "once"
  /\ renormalized' = normalize_text(normalizer, normalized)
  /\ npc' = "twice"
  /\ UNCHANGED << normalizer, text, normalized, fvars, qvars, xvars >>

NextNormalize == NormalizeText \/ NormalizeAgain

InitNormalize(instances, alphabet, n) ==
  /\ normalizer \in instances
  /\ text \in Texts(alphabet, n)
  /\ normalized = <<>>
  /\ renormalized = <<>>
  /\ npc = "ready"
  /\ FilterOff
  /\ ScorerOff
  /\ XOff

\* Texts of letters (I, A and another), a digit, a separator and punctuation.
MaxLenLetters == 4

LetterAlphabet == { "A", "I", "B", "1", " ", ",", "-" }

InitLetters == InitNormalize({ DefaultNormalizer }, LetterAlphabet, MaxLenLetters)

SpecLetters == InitLetters /\ [][NextNormalize]_vars

\* Texts of digits, periods, a separator and a letter.
MaxLenDecimal == 5

DecimalAlphabet == { "1", "2", ".", " ", "B" }

InitDecimal == InitNormalize({ DefaultNormalizer }, DecimalAlphabet, MaxLenDecimal)

SpecDecimal == InitDecimal /\ [][NextNormalize]_vars

\* Texts of digits, the runway letters, a separator and punctuation, for the
\* default normalizer and the one with output_case "lower".
MaxLenRunway == 4

RunwayAlphabet == { "2", "7", "L", "R", "C", " ", "," }

InitRunway ==
  InitNormalize({ DefaultNormalizer, LowerNormalizer }, RunwayAlphabet, MaxLenRunway)

SpecRunway == InitRunway /\ [][NextNormalize]_vars

(***************************************************************************)
(* The pipeline on a transmission: the tokens of                           *)
(* "N 4 5 6 taxi to runway 27L, contact tower 118.3", any run of them      *)
(* being a text, under the default switches and with one switch off.       *)
(***************************************************************************)
TRANSMISSION_TOKENS ==
  << << "N" >>,
     << "4" >>,
     << "5" >>,
     << "6" >>,
     << "t", "a", "x", "i" >>,
     << "t", "o" >>,
     << "r", "u", "n", "w", "a", "y" >>,
     << "2", "7", "L", "," >>,
     << "c", "o", "n", "t", "a", "c", "t" >>,
     << "t", "o", "w", "e", "r" >>,
     << "1", "1", "8", ".", "3" >> >>

SwitchNames ==
  { "apply_spelling_corrections", "normalize_diacritics", "expand_phonetic_letters",
    "expand_numbers", "expand_contractions", "uppercase", "remove_tags",
    "remove_punctuation" }

\* The default switches, and the default switches with one of them off.
SwitchSets ==
  { DefaultSwitches } \cup { [ DefaultSwitches EXCEPT ![name] = FALSE ] : name \in SwitchNames }

\* The tokens from..to of the transmission, separated by single spaces.
TokenRun(tokens, from, to) ==
  Join([ k \in 1..(to - from + 1) |-> tokens[from + k - 1] ], << " " >>)

TransmissionTexts ==
  { TokenRun(TRANSMISSION_TOKENS, from, to) :
      from \in 1..Len(TRANSMISSION_TOKENS), to \in 0..Len(TRANSMISSION_TOKENS) }

InitPipeline ==
  /\ \E switches \in SwitchSets :
       normalizer = ATCTextNormalizer(switches, CaseUpper, NoCustom, NoCustom)
  /\ text \in TransmissionTexts
  /\ normalized = <<>>
  /\ renormalized = <<>>
  /\ npc = "ready"
  /\ FilterOff
  /\ ScorerOff
  /\ XOff

SpecPipeline == InitPipeline /\ [][NextNormalize]_vars

\* Texts of both cases under every output_case, the uppercase switch on and off.
MaxLenCase == 4

CaseAlphabet == { "a", "B", "e_acute", "2", " " }

OutputCases == { CaseUpper, CaseLower, CasePreserve }

InitCase ==
  /\ \E uppercase \in BOOLEAN, output_case \in OutputCases :
       normalizer = ATCTextNormalizer([ DefaultSwitches EXCEPT !.uppercase = uppercase ],
                                      output_case, NoCustom, NoCustom)
  /\ text \in Texts(CaseAlphabet, MaxLenCase)
  /\ normalized = <<>>
  /\ renormalized = <<>>
  /\ npc = "ready"
  /\ FilterOff
  /\ ScorerOff
  /\ XOff

SpecCase == InitCase /\ [][NextNormalize]_vars

\* Texts of letters that are in no table, a digit and punctuation, under every
\* output_case and the switches all on, all off, and all on but one.
MaxLenTotal == 4

TotalAlphabet == { "z", "Q", "1", " ", "'" }

AllOff == [ name \in SwitchNames |-> FALSE ]

InitTotal ==
  /\ \E switches \in SwitchSets \cup { AllOff }, output_case \in OutputCases :
       normalizer = ATCTextNormalizer(switches, output_case, NoCustom, NoCustom)
  /\ text \in Texts(TotalAlphabet, MaxLenTotal)
  /\ normalized = <<>>
  /\ renormalized = <<>>
  /\ npc = "ready"
  /\ FilterOff
  /\ ScorerOff
  /\ XOff

SpecTotal == InitTotal /\ [][NextNormalize]_vars

\* Texts of a letter, a digit, an underscore, a hyphen, a space and a tab.
MaxLenPunct == 4

PunctAlphabet == { "k", "7", "_", "-", " ", "\t" }

InitPunct == InitNormalize({ DefaultNormalizer }, PunctAlphabet, MaxLenPunct)

SpecPunct == InitPunct /\ [][NextNormalize]_vars

\* Texts put together from thousands counts, commas, groups of three digits
\* and spaces.
MaxThousandPieces == 4

ThousandPieces ==
  { << "3" >>, << "2","1" >>, << "1","0" >>, << "," >>, << "0","0","0" >>,
    << "5","0","0" >>, << " " >> }

ThousandTexts ==
  { Join(pieces, <<>>) :
      pieces \in UNION { [1..k -> ThousandPieces] : k \in 0..MaxThousandPieces } }

InitThousands ==
  /\ normalizer = DefaultNormalizer
  /\ text \in ThousandTexts
  /\ normalized = <<>>
  /\ renormalized = <<>>
  /\ npc = "ready"
  /\ FilterOff
  /\ ScorerOff
  /\ XOff

SpecThousands == InitThousands /\ [][NextNormalize]_vars

\* Texts of contractions, possessives and plain words, for the default
\* normalizer and one built with a contraction of the caller's.
MaxContractionTokens == 3

CONTRACTION_TOKENS ==
  { << "I","T","'","S" >>, << "i","t","'","s" >>, << "I","T","'","S","," >>,
    << "P","I","L","O","T","'","S" >>, << "C","A","N","'","T" >>,
    << "R","O","G","E","R" >> }

PILOT_IS ==
  DictOf(<< << << "P","I","L","O","T","'","S" >>, << "P","I","L","O","T"," ","I","S" >> >> >>)

ContractionTexts ==
  { Join(tokens, << " " >>) :
      tokens \in UNION { [1..k -> CONTRACTION_TOKENS] : k \in 0..MaxContractionTokens } }

InitContractions ==
  /\ normalizer \in { DefaultNormalizer,
                       ATCTextNormalizer(DefaultSwitches, CaseUpper, NoCustom, PILOT_IS) }
  /\ text \in ContractionTexts
  /\ normalized = <<>>
  /\ renormalized = <<>>
  /\ npc = "ready"
  /\ FilterOff
  /\ ScorerOff
  /\ XOff

SpecContractions == InitContractions /\ [][NextNormalize]_vars

\* prepassed = normalizer._preprocess_special_patterns(text), the text being
\* in upper case as normalize_text hands it over.
PreprocessSpecialPatterns ==
  /\ npc = "ready"
  /\ normalized' = _preprocess_special_patterns(text)
  /\ npc' = "prepassed"
  /\ UNCHANGED << normalizer, text, renormalized, fvars, qvars, xvars >>

\* Texts of two letters, two digits and a space.
MaxLenCallsign == 6

CallsignAlphabet == { "N", "K", "1", "2", " " }

InitCallsign == InitNormalize({ DefaultNormalizer }, CallsignAlphabet, MaxLenCallsign)

SpecCallsign == InitCallsign /\ [][PreprocessSpecialPatterns]_vars

\* Texts of the word RUNWAY, single digits, the runway letters and a compact
\* designator, separated by single spaces.
MaxRunwayTokens == 4

RUNWAY_TOKENS ==
  { << "R","U","N","W","A","Y" >>, << "2" >>, << "7" >>, << "L" >>, << "R" >>,
    << "C" >>, << "2","7","L" >> }

SeparatedRunwayTexts ==
  { Join(tokens, << " " >>) :
      tokens \in UNION { [1..k -> RUNWAY_TOKENS] : k \in 0..MaxRunwayTokens } }

InitSeparated ==
  /\ normalizer = DefaultNormalizer
  /\ text \in SeparatedRunwayTexts
  /\ normalized = <<>>
  /\ renormalized = <<>>
  /\ npc = "ready"
  /\ FilterOff
  /\ ScorerOff
  /\ XOff

SpecSeparated == InitSeparated /\ [][NextNormalize]_vars

\* Texts of digits next to a letter, a colon, a slash, a hyphen and periods.
MaxLenDigits == 4

DigitsAlphabet == { "1", "9", "B", ":", "/", "-", ".", " " }

InitDigits == InitNormalize({ DefaultNormalizer }, DigitsAlphabet, MaxLenDigits)

SpecDigits == InitDigits /\ [][NextNormalize]_vars

(***************************************************************************)
(* The filter's steps.                                                     *)
(***************************************************************************)
\* fresult = filter.should_exclude(t) for a text t of the given set.
ShouldExclude(texts) ==
  /\ fpc = "idle"
  /\ \E t \in texts :
       /\ ftext' = t
       /\ fresult' = should_exclude(filter, t)
  /\ fpc' = "returned"
  /\ UNCHANGED << filter, file, reloaded, nvars, qvars, xvars >>

\* The caller has taken the result.
FilterReturn ==
  /\ fpc = "returned"
  /\ ftext' = <<>>
  /\ fresult' = NotExcluded
  /\ fpc' = "idle"
  /\ UNCHANGED << filter, file, reloaded, nvars, qvars, xvars >>

\* filter.add_manual_exclusion(t) for a text t of the given set; the model
\* lets the set of exclusions grow to at most cap entries.
AddManualExclusion(texts, cap) ==
  /\ fpc = "idle"
  /\ \E t \in texts :
       /\ Cardinality(filter.manual_exclusions \cup { str_upper(t) }) <= cap
       /\ filter' = add_manual_exclusion(filter, t)
  /\ UNCHANGED << ftext, fresult, fpc, file, reloaded, nvars, qvars, xvars >>

\* filter.save_manual_exclusions(EXCLUSIONS_PATH)
SaveManualExclusions ==
  /\ fpc = "idle"
  /\ file' = save_manual_exclusions(filter)
  /\ fpc' = "saved"
  /\ UNCHANGED << filter, ftext, fresult, reloaded, nvars, qvars, xvars >>

\* reloaded = TransmissionFilter(manual_exclusions_file=EXCLUSIONS_PATH)
Reconstruct ==
  /\ fpc = "saved"
  /\ reloaded' = << TransmissionFilter(None, TRUE, 3, NoLimit, None,
                                        EXCLUSIONS_PATH, file) >>
  /\ fpc' = "reloaded"
  /\ UNCHANGED << filter, ftext, fresult, file, nvars, qvars, xvars >>

\* The texts given to should_exclude: up to MaxPieces pieces, one after another.
MaxPieces == 3

FilterPieces ==
  { << "[","N","O","_","E","N","G","]" >>,
    << "[","N","o","i","s","e","]" >>,
    << "(","?",")" >>,
    << "o","k" >>,
    << " " >>,
    << "g","o"," ","o","n"," " >> }

FilterTexts ==
  { Join(pieces, <<>>) : pieces \in UNION { [1..k -> FilterPieces] : k \in 0..MaxPieces } }

\* The texts given to add_manual_exclusion beside them.
ManualCandidates == { << "[","n","o","_","e","n","g","]" >>, << " " >> }

MinLengths == { 0, 1, 3 }

MaxLengths == { NoLimit, Limit(0), Limit(1), Limit(3) }

CustomFilters == { None, "keep_all", "keep_none" }

InitFilter ==
  /\ \E quality \in BOOLEAN, min \in MinLengths, max \in MaxLengths,
        custom \in CustomFilters :
       filter = TransmissionFilter(None, quality, min, max, custom, None, NoFile)
  /\ ftext = <<>>
  /\ fresult = NotExcluded
  /\ fpc = "idle"
  /\ file = NoFile
  /\ reloaded = <<>>
  /\ NormalizerOff
  /\ ScorerOff
  /\ XOff

NextFilter ==
  \/ ShouldExclude(FilterTexts)
  \/ FilterReturn
  \/ AddManualExclusion(ManualCandidates, Cardinality(ManualCandidates))

SpecFilter == InitFilter /\ [][NextFilter]_vars

\* The texts given to add_manual_exclusion before the set is saved.
MaxEntryLen == 2

MaxExclusions == 2

ExclusionTexts == Texts({ "a", "B", "#", " " }, MaxEntryLen)

InitManual ==
  /\ filter = DefaultFilter
  /\ ftext = <<>>
  /\ fresult = NotExcluded
  /\ fpc = "idle"
  /\ file = NoFile
  /\ reloaded = <<>>
  /\ NormalizerOff
  /\ ScorerOff
  /\ XOff

NextManual ==
  \/ AddManualExclusion(ExclusionTexts, MaxExclusions)
  \/ SaveManualExclusions
  \/ Reconstruct

SpecManual == InitManual /\ [][NextManual]_vars

\* The batch calls of the filter on a list of at most MaxTexts texts: ftext is
\* the list, fresult what filter_stats and the two forms of filter_texts
\* returned.
MaxTexts == 3

StatsTexts ==
  { <<>>,
    << "o", "k" >>,
    << "g", "o", " ", "o", "n", " ", "o", "k" >>,
    << "[", "n", "o", "i", "s", "e", "]", " ", "g", "o", " ", "o", "n" >>,
    << "[", "N", "o", "i", "s", "e", "]", " ", "G", "O" >>,
    << "g", "o", " ", "(", "?", ")", " ", "o", "n", " ", "o", "k", " ", "[", "S", "T", "A", "T", "I", "C", "]" >> }

NoStats ==
  [ total |-> 0, kept |-> 0, excluded |-> 0, exclusion_rate |-> << 0, 1 >>,
    exclusion_reasons |-> << >> ]

\* stats = filter.filter_stats(texts)
FilterStatsCall ==
  /\ fpc = "idle"
  /\ fresult' = [ fresult EXCEPT !.stats = filter_stats(filter, ftext) ]
  /\ fpc' = "stats"
  /\ UNCHANGED << filter, ftext, file, reloaded, nvars, qvars, xvars >>

\* kept = filter.filter_texts(texts)
FilterTextsCall ==
  /\ fpc = "stats"
  /\ fresult' = [ fresult EXCEPT !.kept = filter_texts(filter, ftext) ]
  /\ fpc' = "kept"
  /\ UNCHANGED << filter, ftext, file, reloaded, nvars, qvars, xvars >>

\* excluded = filter.filter_texts(texts, return_reasons=True)
FilterTextsReasonsCall ==
  /\ fpc = "kept"
  /\ fresult' = [ fresult EXCEPT !.excluded = filter_texts_reasons(filter, ftext, 1) ]
  /\ fpc' = "reasons"
  /\ UNCHANGED << filter, ftext, file, reloaded, nvars, qvars, xvars >>

InitStats ==
  /\ \E quality \in BOOLEAN, min \in { 0, 3 }, max \in { NoLimit, Limit(3) } :
       filter = TransmissionFilter(None, quality, min, max, None, None, NoFile)
  /\ ftext \in Texts(StatsTexts, MaxTexts)
  /\ fresult = [ stats |-> NoStats, kept |-> <<>>, excluded |-> <<>> ]
  /\ fpc = "idle"
  /\ file = NoFile
  /\ reloaded = <<>>
  /\ NormalizerOff
  /\ ScorerOff
  /\ XOff

NextStats == FilterStatsCall \/ FilterTextsCall \/ FilterTextsReasonsCall

SpecStats == InitStats /\ [][NextStats]_vars

(***************************************************************************)
(* Construction as a step: a normalizer and a filter are built from a      *)
(* configuration that may be invalid, then used on a text.                 *)
(***************************************************************************)
CaseTitle == << "t", "i", "t", "l", "e" >>

ConfiguredCases == OutputCases \cup { CaseTitle, << "U", "P", "P", "E", "R" >> }

ConfiguredMinLengths == { -1, 0, 3 }

ConfiguredMaxLengths == { NoLimit, Limit(1), Limit(3) }

ConfiguredTags == { None, << "\\[NOISE\\]" >>, << "\\[NOISE\\]", "[" >>, << "*" >> }

ConfiguredTexts ==
  { <<>>, << "o", "k" >>, << "g", "o", " ", "o", "n" >>,
    << "g", "o", " ", "o", "n", " ", "o", "k", " ", "b" >>,
    << "[", "n", "o", "i", "s", "e", "]", " ", "g", "o", " ", "o", "n" >> }

\* normalizer = ATCTextNormalizer(output_case=output_case)
ConstructNormalizer ==
  /\ npc = "unbuilt"
  /\ \E output_case \in ConfiguredCases :
       IF ATCTextNormalizer_raises(output_case)
       THEN npc' = "raised" /\ UNCHANGED normalizer
       ELSE /\ normalizer' = ATCTextNormalizer(DefaultSwitches, output_case, NoCustom, NoCustom)
            /\ npc' = "ready"
  /\ UNCHANGED << text, normalized, renormalized, fvars, qvars, xvars >>

\* filter = TransmissionFilter(exclusion_tags=tags, min_length=min, max_length=max)
ConstructFilter ==
  /\ fpc = "unbuilt"
  /\ \E tags \in ConfiguredTags, min \in ConfiguredMinLengths, max \in ConfiguredMaxLengths :
       IF TransmissionFilter_raises(tags)
       THEN fpc' = "raised" /\ UNCHANGED filter
       ELSE /\ filter' = TransmissionFilter(tags, TRUE, min, max, None, None, NoFile)
            /\ fpc' = "idle"
  /\ UNCHANGED << ftext, fresult, file, reloaded, nvars, qvars, xvars >>

InitConfigured ==
  /\ normalizer = DefaultNormalizer
  /\ text \in ConfiguredTexts
  /\ normalized = <<>>
  /\ renormalized = <<>>
  /\ npc = "unbuilt"
  /\ filter = DefaultFilter
  /\ ftext = <<>>
  /\ fresult = NotExcluded
  /\ fpc = "unbuilt"
  /\ file = NoFile
  /\ reloaded = <<>>
  /\ ScorerOff
  /\ XOff

NextConfigured ==
  \/ ConstructNormalizer
  \/ ConstructFilter
  \/ NormalizeText
  \/ ShouldExclude({ text })
  \/ FilterReturn

SpecConfigured == InitConfigured /\ [][NextConfigured]_vars

(***************************************************************************)
(* The scorer's steps.                                                     *)
(***************************************************************************)
\* snr = calculate_snr(audio, sample_rate)
CalculateSnr ==
  /\ qpc = "ready"
  /\ snr' = calculate_snr(audio, sample_rate)
  /\ qpc' = "snr"
  /\ UNCHANGED << audio, sample_rate, transcript, detect_langs, metrics,
                  thresholds, passed, nvars, fvars, xvars >>

\* metrics = calculate_all_metrics(audio, transcript, sample_rate)
CalculateAllMetrics ==
  /\ qpc = "ready"
  /\ metrics' = calculate_all_metrics(audio, transcript, sample_rate, detect_langs)
  /\ qpc' = "scored"
  /\ UNCHANGED << audio, sample_rate, transcript, detect_langs, snr,
                  thresholds, passed, nvars, fvars, xvars >>

\* passed = passes_quality_filters(metrics, **thresholds)
PassesQualityFilters ==
  /\ qpc = "metrics"
  /\ passed' = passes_quality_filters(metrics, thresholds)
  /\ qpc' = "gated"
  /\ UNCHANGED << audio, sample_rate, transcript, detect_langs, snr, metrics,
                  thresholds, nvars, fvars, xvars >>

\* The audios: up to MaxSamples samples of these amplitudes, at sample rates
\* whose 25 ms frame is 3 and 5 samples long.
MaxSamples == 5

Amplitudes == { 0, 1, 2 }

SampleRates == { 120, 200 }

\* The transcripts: up to MaxTranscriptLen characters.
MaxTranscriptLen == 3

Detections ==
  { DetectorRaises, DetectorEmpty, DetectorTop("en", 9999), DetectorTop("fr", 5714) }

InitQuality ==
  /\ audio \in Texts(Amplitudes, MaxSamples)
  /\ sample_rate \in SampleRates
  /\ transcript \in Texts({ "h", " " }, MaxTranscriptLen)
  /\ detect_langs \in Detections
  /\ snr = Db(0)
  /\ metrics = Metrics(Db(0), "unknown", 0, 0)
  /\ thresholds = DefaultThresholds
  /\ passed = FALSE
  /\ qpc = "ready"
  /\ NormalizerOff
  /\ FilterOff
  /\ XOff

NextQuality == CalculateSnr \/ CalculateAllMetrics

SpecQuality == InitQuality /\ [][NextQuality]_vars

\* speech_ratio = calculate_speech_ratio(audio, sample_rate, aggressiveness)
CalculateSpeechRatio ==
  /\ spc = "ready"
  /\ speech_ratio' = calculate_speech_ratio(audio, sample_rate, aggressiveness)
  /\ spc' = "done"
  /\ UNCHANGED << aggressiveness, dvars, pvars, nvars, fvars, qvars, bvars, cvars, hvars >>

\* Audio of up to MaxVadSamples samples at rates that make a 30 ms frame one
\* or two samples long, and the four levels.
MaxVadSamples == 6

VadSampleRates == { 34, 67 }

InitSpeech ==
  /\ audio \in Texts(Amplitudes, MaxVadSamples)
  /\ sample_rate \in VadSampleRates
  /\ aggressiveness \in DOMAIN AGGRESSIVENESS_PERCENTILES
  /\ speech_ratio = << 0, 1 >>
  /\ spc = "ready"
  /\ transcript = <<>>
  /\ detect_langs = DetectorEmpty
  /\ snr = Db(0)
  /\ metrics = Metrics(Db(0), "unknown", 0, 0)
  /\ thresholds = DefaultThresholds
  /\ passed = FALSE
  /\ qpc = "off"
  /\ NormalizerOff
  /\ FilterOff
  /\ BatchOff
  /\ WorkersOff
  /\ InstancesOff
  /\ CleanupOff
  /\ ProgressOff

SpecSpeech == InitSpeech /\ [][CalculateSpeechRatio]_vars

\* The gate's arguments: each numeric metric within MaxSteps steps of its
\* threshold, a step being the last decimal the metric is rounded to.
MaxSteps == 1

ThresholdSets == { DefaultThresholds, Thresholds(1000, "fr", 5000, 5000) }

Languages == { "en", "fr", "unknown" }

InitGate ==
  /\ thresholds \in ThresholdSets
  /\ \E d1, d2, d3 \in -MaxSteps..MaxSteps, language \in Languages :
       metrics = Metrics(round_db(Db(thresholds.min_snr_db + d1)), language,
                         thresholds.min_language_confidence + 10 * d2,
                         thresholds.min_speech_ratio + 10 * d3)
  /\ audio = <<>>
  /\ sample_rate = 16000
  /\ transcript = <<>>
  /\ detect_langs = DetectorEmpty
  /\ snr = Db(0)
  /\ passed = FALSE
  /\ qpc = "metrics"
  /\ NormalizerOff
  /\ FilterOff
  /\ XOff

NextGate == PassesQualityFilters

SpecGate == InitGate /\ [][NextGate]_vars

(***************************************************************************)
(* The batch scripts: add_quality_metrics.py and DataPreprocessor of       *)
(* preprocess_data.py.  A segment is a record; a key the JSON object does  *)
(* not hold is None (audio_file) or has its has_ flag FALSE (transcript).  *)
(* A segment of add_quality_metrics has neither "normalized_text" nor      *)
(* "text", so its text is "".                                              *)
(***************************************************************************)
\* The audio directory: a name that is no file, a file librosa.load fails on,
\* a file of two samples, a file of no sample.
AUDIO_DIR == { "unreadable.wav", "short.wav", "silent.wav" }

\* audio_file.exists()
audio_file_exists(audio_file) == audio_file \in AUDIO_DIR

\* librosa.load(audio_file, sr=16000, mono=True) raises.
librosa_load_raises(audio_file) == audio_file = "unreadable.wav"

\* librosa.load(audio_file, sr=16000, mono=True)[0]
librosa_load(audio_file) == IF audio_file = "short.wav" THEN << 1, 2 >> ELSE <<>>

\* What process_segment does: raise (raised), or return (segment_data, passes).
Processed(segment_data, passes) ==
  [ raised |-> FALSE, segment_data |-> segment_data, passes |-> passes ]

\* process_segment from the existence test on, audio_file being the value of
\* segment_data["audio_file"].
process_segment_body(segment_data, enabled) ==
  IF ~audio_file_exists(segment_data.audio_file) THEN Processed(segment_data, FALSE)
  ELSE IF librosa_load_raises(segment_data.audio_file) THEN Processed(segment_data, FALSE)
  ELSE
    LET quality == calculate_all_metrics(librosa_load(segment_data.audio_file), <<>>,
                                         16000, DetectorEmpty)
    IN  IF quality.raised THEN Processed(segment_data, FALSE)
        ELSE Processed([ segment_data EXCEPT !.quality = << quality >> ],
                       IF enabled THEN passes_quality_filters(quality, DefaultThresholds)
                       ELSE TRUE)

\* process_segment(segment_data, audio_dir, config), enabled being
\* config["quality_filtering"]["enabled"] and the thresholds the defaults.
\* segment_data["audio_file"] is read before the try block: KeyError.
process_segment(segment_data, enabled) ==
  IF segment_data.audio_file = None
  THEN [ raised |-> TRUE, segment_data |-> segment_data, passes |-> FALSE ]
  ELSE process_segment_body(segment_data, enabled)

\* stats of add_quality_metrics.main; an average is << sum, count >> before
\* its rounding.
QualityStats ==
  [ total_segments |-> 0, segments_with_metrics |-> 0, segments_passed |-> 0,
    segments_filtered |-> 0, avg_snr |-> << 0, 1 >>, avg_speech_ratio |-> << 0, 1 >>,
    language_distribution |-> << >>, snr_values |-> <<>>, speech_ratios |-> <<>> ]

\* The inner loop of main after process_segment returned or raised: the
\* statistics and updated_segments.  An exception leaves main.
CountSegment(result, counted) ==
  IF result.raised
  THEN /\ bpc' = "escaped"
       /\ stats' = counted
       /\ UNCHANGED << seg_i, updated_segments >>
  ELSE /\ bpc' = bpc
       /\ seg_i' = seg_i + 1
       /\ IF result.segment_data.quality # <<>>
          THEN /\ stats' =
                    [ counted EXCEPT
                        !.segments_with_metrics = @ + 1,
                        !.snr_values = Append(@, result.segment_data.quality[1].snr_db),
                        !.speech_ratios =
                            Append(@, result.segment_data.quality[1].speech_ratio),
                        !.language_distribution =
                            Increment(@, result.segment_data.quality[1].language),
                        !.segments_passed = @ + (IF result.passes THEN 1 ELSE 0),
                        !.segments_filtered = @ + (IF result.passes THEN 0 ELSE 1) ]
               /\ updated_segments' =
                    IF result.passes \/ ~args_filter
                    THEN Append(updated_segments, result.segment_data)
                    ELSE updated_segments
          ELSE /\ stats' = counted
               /\ updated_segments' = Append(updated_segments, result.segment_data)

\* One iteration of the inner loop of main: process_segment, then the
\* statistics.
ProcessSegment ==
  /\ bpc = "segments"
  /\ file_i <= Len(json_files)
  /\ seg_i <= Len(json_files[file_i])
  /\ CountSegment(process_segment(json_files[file_i][seg_i], quality_enabled),
                  [ stats EXCEPT !.total_segments = @ + 1 ])
  /\ UNCHANGED << json_files, transcript_files, args_filter, quality_enabled,
                  file_i, output_files, nvars, fvars, qvars, cvars, hvars, yvars >>

\* The end of an iteration of the outer loop of main: the file is written.
SaveFile ==
  /\ bpc = "segments"
  /\ file_i <= Len(json_files)
  /\ seg_i > Len(json_files[file_i])
  /\ output_files' = [ output_files EXCEPT ![file_i] = << updated_segments >> ]
  /\ file_i' = file_i + 1
  /\ seg_i' = 1
  /\ updated_segments' = <<>>
  /\ UNCHANGED << json_files, transcript_files, args_filter, quality_enabled,
                  stats, bpc, nvars, fvars, qvars, cvars, hvars, yvars >>

\* After the loop of main: the averages of the statistics.
SaveStats ==
  /\ bpc = "segments"
  /\ file_i > Len(json_files)
  /\ stats' =
       IF stats.snr_values = <<>> THEN stats
       ELSE [ stats EXCEPT
                !.avg_snr =
                    << SumOver([ k \in DOMAIN stats.snr_values |->
                                   stats.snr_values[k].hundredths ],
                               DOMAIN stats.snr_values),
                       Len(stats.snr_values) >>,
                !.avg_speech_ratio =
                    << SumOver(stats.speech_ratios, DOMAIN stats.speech_ratios),
                       Len(stats.speech_ratios) >> ]
  /\ bpc' = "done"
  /\ UNCHANGED << json_files, transcript_files, args_filter, quality_enabled,
                  file_i, seg_i, updated_segments, output_files, nvars, fvars, qvars, cvars, hvars, yvars >>

\* stats of DataPreprocessor.
PreprocessorStats ==
  [ total_videos |-> 0, total_segments |-> 0, filtered_segments |-> 0,
    normalization_changes |-> 0, videos_processed |-> 0 ]

\* A faulty variant: the filter is given the normalized text.
filter_argument_normalized(self_normalizer, original_text) ==
  normalize_text(self_normalizer, original_text)

\* The text preprocess_transcript gives to self.filter.should_exclude.
filter_argument(self_normalizer, original_text) == original_text

\* The end of the loop body of preprocess_transcript for a segment the filter
\* keeps.
KeepSegment(done, segment, normalized_text) ==
  [ done EXCEPT
      !.processed_segments =
          Append(@, [ segment_num |-> segment.segment_num,
                      transcript |-> normalized_text,
                      original_transcript |-> segment.transcript ]),
      !.normalization_changes =
          @ + (IF normalized_text # segment.transcript THEN 1 ELSE 0) ]

\* The loop of preprocess_transcript from segment i on: what it has appended
\* and counted when it ends or when segment["transcript"] raises KeyError.
RECURSIVE preprocess_segments(_, _, _, _, _)
preprocess_segments(self_normalizer, self_filter, original_segments, i, done) ==
  IF i > Len(original_segments) THEN done
  ELSE IF ~original_segments[i].has_transcript THEN [ done EXCEPT !.raised = TRUE ]
  ELSE IF should_exclude(self_filter,
                         filter_argument(self_normalizer,
                                         original_segments[i].transcript)).excluded
  THEN preprocess_segments(self_normalizer, self_filter, original_segments, i + 1,
         [ done EXCEPT !.filtered_count = @ + 1 ])
  ELSE preprocess_segments(self_normalizer, self_filter, original_segments, i + 1,
         KeepSegment(done, original_segments[i],
                     normalize_text(self_normalizer, original_segments[i].transcript)))

\* What preprocess_transcript returns after its loop, with the counts it adds
\* to self.stats and whether it raised.
Preprocessed(done) ==
  [ raised                |-> done.raised,
    segments              |-> done.processed_segments,
    total_segments        |-> Len(done.processed_segments),
    filtered_segments     |-> done.filtered_count,
    preprocessing_date    |-> "now",
    normalization_changes |-> done.normalization_changes ]

\* preprocess_transcript(transcript_data), the transcript being its segments.
preprocess_transcript(self_normalizer, self_filter, original_segments) ==
  Preprocessed(preprocess_segments(self_normalizer, self_filter, original_segments, 1,
                 [ raised |-> FALSE, processed_segments |-> <<>>,
                   filtered_count |-> 0, normalization_changes |-> 0 ]))

\* The try block of process_all_transcripts after preprocess_transcript
\* returned or raised: the file is saved, or the error is printed.
SaveTranscript(data, preprocessed) ==
  IF preprocessed.raised
  THEN /\ stats' = [ stats EXCEPT
                       !.normalization_changes = @ + preprocessed.normalization_changes ]
       /\ UNCHANGED output_files
  ELSE /\ stats' = [ stats EXCEPT
                       !.normalization_changes = @ + preprocessed.normalization_changes,
                       !.total_segments = @ + Len(data),
                       !.filtered_segments = @ + preprocessed.filtered_segments,
                       !.videos_processed = @ + 1 ]
       /\ output_files' = [ output_files EXCEPT ![file_i] = << preprocessed >> ]

\* One iteration of the loop of process_all_transcripts: the transcript is
\* loaded, preprocessed and saved; an exception is printed and the loop goes on.
ProcessTranscriptFile ==
  /\ bpc = "transcripts"
  /\ file_i <= Len(transcript_files)
  /\ SaveTranscript(transcript_files[file_i],
                    preprocess_transcript(normalizer, filter, transcript_files[file_i]))
  /\ file_i' = file_i + 1
  /\ UNCHANGED << json_files, transcript_files, args_filter, quality_enabled,
                  seg_i, updated_segments, bpc, nvars, fvars, qvars, cvars, hvars, yvars >>

\* After the loop of process_all_transcripts.
FinishTranscripts ==
  /\ bpc = "transcripts"
  /\ file_i > Len(transcript_files)
  /\ stats' = [ stats EXCEPT !.total_videos = Len(transcript_files) ]
  /\ bpc' = "done"
  /\ UNCHANGED << json_files, transcript_files, args_filter, quality_enabled,
                  file_i, seg_i, updated_segments, output_files, nvars, fvars, qvars, cvars, hvars, yvars >>

\* The segments of a file, numbered.
QualitySegments(audio_files) ==
  [ k \in DOMAIN audio_files |->
      [ segment_num |-> k, audio_file |-> audio_files[k], quality |-> <<>> ] ]

TranscriptSegments(transcripts) ==
  [ k \in DOMAIN transcripts |->
      [ segment_num |-> k,
        has_transcript |-> transcripts[k] # << None >>,
        transcript |-> IF transcripts[k] = << None >> THEN <<>> ELSE transcripts[k] ] ]

\* The batches: at most MaxFiles files, each of two segments of which one is
\* sound (a silent audio, a transmission the filter keeps).
MaxFiles == 2

Batches(files) == UNION { [1..k -> files] : k \in 0..MaxFiles }

AudioFileNames == { None, "absent.wav", "unreadable.wav", "short.wav", "silent.wav" }

QualityFiles ==
  { QualitySegments(<< a, "silent.wav" >>) : a \in AudioFileNames }
    \cup { QualitySegments(<< "silent.wav", a >>) : a \in AudioFileNames }

GO_ON_OK == << "g", "o", " ", "o", "n", " ", "o", "k" >>

TranscriptFileSet ==
  { TranscriptSegments(<< t, GO_ON_OK >>) : t \in { << None >>, << "o", "k" >>, GO_ON_OK } }
    \cup { TranscriptSegments(<< GO_ON_OK, t >>) : t \in { << None >>, << "o", "k" >> } }

NoOutput(files) == [ k \in DOMAIN files |-> <<>> ]

InitBatch ==
  /\ \/ /\ json_files \in Batches(QualityFiles)
        /\ transcript_files = <<>>
        /\ args_filter \in BOOLEAN
        /\ quality_enabled \in BOOLEAN
        /\ output_files = NoOutput(json_files)
        /\ stats = QualityStats
        /\ bpc = "segments"
     \/ /\ json_files = <<>>
        /\ transcript_files \in Batches(TranscriptFileSet)
        /\ args_filter = FALSE
        /\ quality_enabled = TRUE
        /\ output_files = NoOutput(transcript_files)
        /\ stats = PreprocessorStats
        /\ bpc = "transcripts"
  /\ file_i = 1
  /\ seg_i = 1
  /\ updated_segments = <<>>
  /\ NormalizerOff
  /\ FilterOff
  /\ ScorerOff
  /\ WorkersOff
  /\ InstancesOff
  /\ YOff

NextBatch ==
  \/ ProcessSegment
  \/ SaveFile
  \/ SaveStats
  \/ ProcessTranscriptFile
  \/ FinishTranscripts

SpecBatch == InitBatch /\ [][NextBatch]_vars

\* One transcript of at most MaxSegments segments: transmissions the filter
\* keeps, one it keeps whatever its case, one too short, one with a tag, and
\* one of two words that the normalizer makes three.
MaxSegments == 3

TranscriptTexts ==
  { GO_ON_OK,
    << "G", "O", " ", "O", "N", " ", "O", "K" >>,
    << "o", "k" >>,
    << "[", "n", "o", "i", "s", "e", "]", " ", "g", "o", " ", "o", "n" >>,
    << "g", "o", " ", "b", "2" >> }

InitTranscripts(texts) ==
  /\ \E transcripts \in Texts(texts, MaxSegments) :
       transcript_files = << TranscriptSegments(transcripts) >>
  /\ json_files = <<>>
  /\ args_filter = FALSE
  /\ quality_enabled = TRUE
  /\ output_files = NoOutput(transcript_files)
  /\ stats = PreprocessorStats
  /\ bpc = "transcripts"
  /\ file_i = 1
  /\ seg_i = 1
  /\ updated_segments = <<>>
  /\ NormalizerOff
  /\ FilterOff
  /\ ScorerOff
  /\ WorkersOff
  /\ InstancesOff
  /\ YOff

InitPreprocess == InitTranscripts(TranscriptTexts)

\* Transcripts of three words that are punctuation, removable tags or words.
SparseTexts ==
  { GO_ON_OK,
    << "-", " ", "-", " ", "-" >>,
    << "?", " ", "!", " ", "." >>,
    << "[","A","T","C","]", " ", "[","A","T","C","]", " ", "[","A","T","C","]" >>,
    << "[","A","T","C","]", " ", "g", "o", " ", "." >>,
    << " ", "\t" >> }

InitSparse == InitTranscripts(SparseTexts)

NextPreprocess == ProcessTranscriptFile \/ FinishTranscripts

SpecPreprocess == InitPreprocess /\ [][NextPreprocess]_vars

SpecSparse == InitSparse /\ [][NextPreprocess]_vars

(***************************************************************************)
(* Concurrent calls: workers share the normalizer and the filter and call  *)
(* normalize_text, should_exclude, calculate_all_metrics and               *)
(* passes_quality_filters on the segments of a batch.  A call of           *)
(* normalize_text is one step per statement, its local variable text       *)
(* living in the frame of the call; the other three are one step.          *)
(***************************************************************************)
MaxWorkers == 2

Workers == 1..MaxWorkers

\* The segments of the batch: a text, its audio, what langdetect makes of the
\* text, and metrics for the gate.
BatchSegments ==
  { [ text |-> << "g", "o", " ", "b", "2" >>,
      audio |-> << 1, 0, 2, 1, 0 >>, sample_rate |-> 120,
      detect_langs |-> DetectorTop("en", 9999),
      metrics |-> Metrics(round_db(Db(1500)), "en", 8000, 6000) ],
    [ text |-> << "[", "n", "o", "i", "s", "e", "]", " ", "M", "a", "y", "d", "a", "y" >>,
      audio |-> <<>>, sample_rate |-> 120,
      detect_langs |-> DetectorEmpty,
      metrics |-> Metrics(round_db(Db(1499)), "en", 8000, 6000) ],
    [ text |-> <<>>,
      audio |-> << 1, 2 >>, sample_rate |-> 120,
      detect_langs |-> DetectorRaises,
      metrics |-> Metrics(round_db(Db(1500)), "fr", 8000, 6000) ] }

Operations ==
  { "normalize_text", "should_exclude", "calculate_all_metrics", "passes_quality_filters" }

NoResult ==
  [ text |-> <<>>, exclusion |-> NotExcluded,
    metrics |-> Metrics(Db(0), "unknown", 0, 0), passed |-> FALSE ]

Idle ==
  [ pc |-> "idle", op |-> "", segment |-> CHOOSE s \in BatchSegments : TRUE,
    statement |-> 0, result |-> NoResult ]

\* A faulty variant: the local variable is an attribute of the instance.
frame_on_instance(w) == 0

\* The frame of worker w's call, where its local variables live.
frame_of(w) == w

\* The shared filter holds one manual exclusion.
SharedFilter == add_manual_exclusion(DefaultFilter, << "m", "a", "y", "d", "a", "y" >>)

\* Worker w calls an operation on a segment: the arguments are bound.
Call(w) ==
  /\ call[w].pc = "idle"
  /\ \E op \in Operations, segment \in BatchSegments :
       /\ call' = [ call EXCEPT ![w] =
                      [ Idle EXCEPT !.pc = "running", !.op = op, !.segment = segment ] ]
       /\ locals' = IF op = "normalize_text"
                    THEN [ locals EXCEPT ![frame_of(w)] = segment.text ]
                    ELSE locals
  /\ UNCHANGED << nvars, fvars, qvars, bvars, hvars, yvars >>

\* if not text: return text
ReturnEmpty(w) ==
  /\ call[w].pc = "running"
  /\ call[w].op = "normalize_text"
  /\ call[w].statement = 0
  /\ locals[frame_of(w)] = <<>>
  /\ call' = [ call EXCEPT ![w].pc = "returned", ![w].result.text = <<>> ]
  /\ UNCHANGED << locals, nvars, fvars, qvars, bvars, hvars, yvars >>

\* The next statement of normalize_text: text = stage(text), on the shared
\* normalizer.
NormalizeStatement(w) ==
  /\ call[w].pc = "running"
  /\ call[w].op = "normalize_text"
  /\ call[w].statement < Len(STAGE_ORDER)
  /\ call[w].statement = 0 => locals[frame_of(w)] # <<>>
  /\ locals' = [ locals EXCEPT ![frame_of(w)] =
                   ApplyStage(STAGE_ORDER[call[w].statement + 1], normalizer, @) ]
  /\ call' = [ call EXCEPT ![w].statement = @ + 1 ]
  /\ UNCHANGED << nvars, fvars, qvars, bvars, hvars, yvars >>

\* return text
ReturnText(w) ==
  /\ call[w].pc = "running"
  /\ call[w].op = "normalize_text"
  /\ call[w].statement = Len(STAGE_ORDER)
  /\ call' = [ call EXCEPT ![w].pc = "returned", ![w].result.text = locals[frame_of(w)] ]
  /\ locals' = [ locals EXCEPT ![frame_of(w)] = <<>> ]
  /\ UNCHANGED << nvars, fvars, qvars, bvars, hvars, yvars >>

\* should_exclude on the shared filter.
CallShouldExclude(w) ==
  /\ call[w].pc = "running"
  /\ call[w].op = "should_exclude"
  /\ call' = [ call EXCEPT ![w].pc = "returned",
                           ![w].result.exclusion = should_exclude(filter, call[w].segment.text) ]
  /\ UNCHANGED << locals, nvars, fvars, qvars, bvars, hvars, yvars >>

\* calculate_all_metrics, a function of the module.
CallCalculateAllMetrics(w) ==
  /\ call[w].pc = "running"
  /\ call[w].op = "calculate_all_metrics"
  /\ call' = [ call EXCEPT ![w].pc = "returned",
                           ![w].result.metrics =
                               calculate_all_metrics(call[w].segment.audio,
                                                     call[w].segment.text,
                                                     call[w].segment.sample_rate,
                                                     call[w].segment.detect_langs) ]
  /\ UNCHANGED << locals, nvars, fvars, qvars, bvars, hvars, yvars >>

\* passes_quality_filters, a function of the module.
CallPassesQualityFilters(w) ==
  /\ call[w].pc = "running"
  /\ call[w].op = "passes_quality_filters"
  /\ call' = [ call EXCEPT ![w].pc = "returned",
                           ![w].result.passed =
                               passes_quality_filters(call[w].segment.metrics,
                                                      DefaultThresholds) ]
  /\ UNCHANGED << locals, nvars, fvars, qvars, bvars, hvars, yvars >>

\* The worker has taken the result and goes on with the batch.
Take(w) ==
  /\ call[w].pc = "returned"
  /\ call' = [ call EXCEPT ![w] = Idle ]
  /\ UNCHANGED << locals, nvars, fvars, qvars, bvars, hvars, yvars >>

InitWorkers ==
  /\ call = [ w \in Workers |-> Idle ]
  /\ locals = [ frame \in 0..MaxWorkers |-> <<>> ]
  /\ normalizer = DefaultNormalizer
  /\ text = <<>>
  /\ normalized = <<>>
  /\ renormalized = <<>>
  /\ npc = "off"
  /\ filter = SharedFilter
  /\ ftext = <<>>
  /\ fresult = NotExcluded
  /\ fpc = "off"
  /\ file = NoFile
  /\ reloaded = <<>>
  /\ ScorerOff
  /\ BatchOff
  /\ InstancesOff
  /\ YOff

NextWorkers ==
  \E w \in Workers :
    \/ Call(w)
    \/ ReturnEmpty(w)
    \/ NormalizeStatement(w)
    \/ ReturnText(w)
    \/ CallShouldExclude(w)
    \/ CallCalculateAllMetrics(w)
    \/ CallPassesQualityFilters(w)
    \/ Take(w)

SpecWorkers == InitWorkers /\ [][NextWorkers]_vars

(***************************************************************************)
(* Instances side by side.  Lists, dictionaries and sets are objects of a  *)
(* heap, known by a reference << owner, name >>; an attribute of an        *)
(* instance holds a reference, so two attributes may hold the same object. *)
(* The class-level tables are objects of the class, the arguments of a     *)
(* constructor objects of the caller.                                      *)
(***************************************************************************)
FilterNames == { "f1", "f2" }

NormalizerNames == { "n1", "n2" }

Class(name) == << "class", name >>

Caller(name) == << "caller", name >>

Own(instance, name) == << instance, name >>

ClassObjects ==
  { Class("SPELLING_CORRECTIONS"), Class("CONTRACTIONS"), Class("DEFAULT_EXCLUSION_TAGS") }

\* The arguments the caller holds: a tag list, corrections and contractions.
CALLER_TAGS == << "\\[NOISE\\]" >>

CALLER_CORRECTIONS == DictOf(<< << << "T", "A", "X", "Y" >>, << "T", "A", "X", "I" >> >> >>)

CALLER_CONTRACTIONS == DictOf(<< << << "Y", "'", "A", "L", "L" >>, << "Y", "O", "U", " ", "A", "L", "L" >> >> >>)

\* The tags given to add_exclusion_tag, the text given to add_manual_exclusion.
AddedTags == { "\\[STATIC\\]", "---" }

MAYDAY == << "m", "a", "y", "d", "a", "y" >>

\* A list holds at most MaxTags tags more than it did when it was made.
MaxTags == 2

Unbuilt == [ built |-> FALSE, attributes |-> << >> ]

\* The object self.exclusion_tags is bound to when the caller supplies a list:
\* self.exclusion_tags = exclusion_tags.
tags_reference(instance, exclusion_tags) == exclusion_tags

\* instance = TransmissionFilter(exclusion_tags=exclusion_tags), exclusion_tags
\* being None or the caller's list.
NewFilter(instance, exclusion_tags) ==
  /\ ~filters[instance].built
  /\ LET own  == Own(instance, "exclusion_tags")
         ref  == IF exclusion_tags = None THEN own
                 ELSE tags_reference(instance, exclusion_tags)
         tags == IF exclusion_tags = None THEN heap[Class("DEFAULT_EXCLUSION_TAGS")]
                 ELSE heap[exclusion_tags]
     IN  /\ heap' = [ r \in DOMAIN heap \cup { own, Own(instance, "manual_exclusions"),
                                                 Own(instance, "exclusion_patterns") } |->
                        IF r = Own(instance, "manual_exclusions") THEN {}
                        ELSE IF r = Own(instance, "exclusion_patterns") THEN tags
                        ELSE IF r = own THEN tags
                        ELSE heap[r] ]
         /\ filters' = [ filters EXCEPT ![instance] =
                           [ built |-> TRUE,
                             attributes |->
                               [ exclusion_tags     |-> ref,
                                 exclusion_patterns |-> Own(instance, "exclusion_patterns"),
                                 manual_exclusions  |-> Own(instance, "manual_exclusions") ] ] ]
  /\ last_call' = [ instance |-> instance, method |-> "__init__" ]
  /\ UNCHANGED << normalizers, nvars, fvars, qvars, bvars, cvars, yvars >>

\* instance.add_exclusion_tag(tag_pattern)
AddExclusionTag(instance, tag_pattern) ==
  /\ filters[instance].built
  /\ LET tags     == filters[instance].attributes.exclusion_tags
         patterns == filters[instance].attributes.exclusion_patterns
     IN  /\ Len(heap[tags]) < MaxTags + (IF tags = Caller("tags") THEN Len(CALLER_TAGS)
                                             ELSE Len(DEFAULT_EXCLUSION_TAGS))
         /\ heap' = [ heap EXCEPT ![tags] = Append(@, tag_pattern),
                                  ![patterns] = Append(@, tag_pattern) ]
  /\ last_call' = [ instance |-> instance, method |-> "add_exclusion_tag" ]
  /\ UNCHANGED << filters, normalizers, nvars, fvars, qvars, bvars, cvars, yvars >>

\* instance.add_manual_exclusion(t)
AddManualExclusionOn(instance, t) ==
  /\ filters[instance].built
  /\ heap' = [ heap EXCEPT ![filters[instance].attributes.manual_exclusions] =
                 @ \cup { str_upper(t) } ]
  /\ last_call' = [ instance |-> instance, method |-> "add_manual_exclusion" ]
  /\ UNCHANGED << filters, normalizers, nvars, fvars, qvars, bvars, cvars, yvars >>

\* instance = ATCTextNormalizer(custom_corrections=..., custom_contractions=...),
\* each None or the caller's dictionary: the class table is copied and updated.
NewNormalizer(instance, custom_corrections, custom_contractions) ==
  /\ ~normalizers[instance].built
  /\ LET corrections  == Own(instance, "spelling_corrections")
         contracted   == Own(instance, "contractions")
     IN  /\ heap' = [ r \in DOMAIN heap \cup { corrections, contracted } |->
                        IF r = corrections
                        THEN IF custom_corrections = None
                             THEN heap[Class("SPELLING_CORRECTIONS")]
                             ELSE DictUpdate(heap[Class("SPELLING_CORRECTIONS")],
                                             heap[custom_corrections])
                        ELSE IF r = contracted
                        THEN IF custom_contractions = None
                             THEN heap[Class("CONTRACTIONS")]
                             ELSE DictUpdate(heap[Class("CONTRACTIONS")],
                                             heap[custom_contractions])
                        ELSE heap[r] ]
         /\ normalizers' = [ normalizers EXCEPT ![instance] =
                               [ built |-> TRUE,
                                 attributes |-> [ spelling_corrections |-> corrections,
                                                  contractions |-> contracted ] ] ]
  /\ last_call' = [ instance |-> instance, method |-> "__init__" ]
  /\ UNCHANGED << filters, nvars, fvars, qvars, bvars, cvars, yvars >>

InitInstances ==
  /\ heap = [ r \in ClassObjects \cup { Caller("tags"), Caller("corrections"),
                                        Caller("contractions") } |->
                CASE r = Class("SPELLING_CORRECTIONS") -> SPELLING_CORRECTIONS
                  [] r = Class("CONTRACTIONS") -> CONTRACTIONS
                  [] r = Class("DEFAULT_EXCLUSION_TAGS") -> DEFAULT_EXCLUSION_TAGS
                  [] r = Caller("tags") -> CALLER_TAGS
                  [] r = Caller("corrections") -> CALLER_CORRECTIONS
                  [] r = Caller("contractions") -> CALLER_CONTRACTIONS ]
  /\ filters = [ instance \in FilterNames |-> Unbuilt ]
  /\ normalizers = [ instance \in NormalizerNames |-> Unbuilt ]
  /\ last_call = [ instance |-> "", method |-> "" ]
  /\ NormalizerOff
  /\ FilterOff
  /\ ScorerOff
  /\ BatchOff
  /\ WorkersOff
  /\ YOff

NextInstances ==
  \/ \E instance \in FilterNames, exclusion_tags \in { None, Caller("tags") } :
       NewFilter(instance, exclusion_tags)
  \/ \E instance \in FilterNames, tag_pattern \in AddedTags :
       AddExclusionTag(instance, tag_pattern)
  \/ \E instance \in FilterNames : AddManualExclusionOn(instance, MAYDAY)
  \/ \E instance \in NormalizerNames,
        custom_corrections \in { None, Caller("corrections") },
        custom_contractions \in { None, Caller("contractions") } :
       NewNormalizer(instance, custom_corrections, custom_contractions)

SpecInstances == InitInstances /\ [][NextInstances]_vars

(***************************************************************************)
(* cleanup_missing_segments.py: cleanup_transcripts, then                  *)
(* rename_audio_files.  A segment is its number and its transcript; the    *)
(* audio cut for a segment is named after that transcript.                 *)
(***************************************************************************)
\* The transcript files in the order of sorted(glob("*.json")).
VIDEO_IDS == << "v1", "v2" >>

\* f"{video_id}_seg{seg_num:03d}.wav"
audio_filename(video_id, seg_num) == << video_id, seg_num >>

\* audio_path.exists()
path_exists(directory, audio_path) ==
  audio_path \in DOMAIN directory /\ directory[audio_path] # << >>

\* The segments of the list that have an audio file.
kept_segments(directory, video_id, original_segments) ==
  SelectSeq(original_segments,
            LAMBDA seg : path_exists(directory, audio_filename(video_id, seg.segment_num)))

\* for i, seg in enumerate(kept_segments, 1): seg['segment_num'] = i
renumber(kept) ==
  [ i \in 1..Len(kept) |-> [ kept[i] EXCEPT !.segment_num = i ] ]

\* data['segments'] as it is written back when segments were removed.
written_segments(kept) == renumber(kept)

CleanupStats ==
  [ videos_processed |-> 0, videos_modified |-> 0, videos_removed |-> 0,
    segments_before |-> 0, segments_after |-> 0, segments_removed |-> 0 ]

\* What one iteration of the loop of cleanup_transcripts does with the file of
\* video_id, given its segments and those of them that have audio.
CleanupFile(video_id, original_segments, kept) ==
  /\ cleanup_stats' =
       [ cleanup_stats EXCEPT
           !.videos_processed = @ + 1,
           !.segments_before = @ + Len(original_segments),
           !.segments_after = @ + Len(kept),
           !.segments_removed = @ + (Len(original_segments) - Len(kept)),
           !.videos_removed = @ + (IF Len(kept) = 0 THEN 1 ELSE 0),
           !.videos_modified =
               @ + (IF Len(kept) # 0 /\ Len(kept) < Len(original_segments) THEN 1 ELSE 0) ]
  /\ transcripts_dir' =
       IF Len(kept) = 0
       THEN [ transcripts_dir EXCEPT ![video_id] = << >> ]
       ELSE IF Len(kept) < Len(original_segments)
       THEN [ transcripts_dir EXCEPT ![video_id] = << written_segments(kept) >> ]
       ELSE transcripts_dir

\* One iteration of the loop of cleanup_transcripts; after the last file
\* main goes on to rename_audio_files.
CleanupTranscript ==
  /\ dpc = "cleanup"
  /\ video_i <= Len(VIDEO_IDS)
  /\ CleanupFile(VIDEO_IDS[video_i], transcripts_dir[VIDEO_IDS[video_i]][1],
                 kept_segments(audio_segments_dir, VIDEO_IDS[video_i],
                               transcripts_dir[VIDEO_IDS[video_i]][1]))
  /\ video_i' = IF video_i = Len(VIDEO_IDS) THEN 1 ELSE video_i + 1
  /\ dpc' = IF video_i = Len(VIDEO_IDS) THEN "rename" ELSE "cleanup"
  /\ UNCHANGED << audio_segments_dir, renamed_count, pvars, svars, nvars, fvars, qvars,
                  bvars, cvars, hvars >>

\* old_num = seg.get('original_segment_num', seg['segment_num']): no segment
\* has the key original_segment_num.
old_num(seg) == seg.segment_num

\* The inner loop of rename_audio_files from segment new_num on: the directory
\* and the count of renamed files when it ends.
RECURSIVE rename_segments(_, _, _, _)
rename_segments(video_id, segments, new_num, renamed) ==
  IF new_num > Len(segments) THEN renamed
  ELSE LET old_path == audio_filename(video_id, old_num(segments[new_num]))
           new_path == audio_filename(video_id, new_num)
       IN  IF /\ old_num(segments[new_num]) # new_num
              /\ path_exists(renamed.directory, old_path)
              /\ ~path_exists(renamed.directory, new_path)
           THEN rename_segments(video_id, segments, new_num + 1,
                  [ directory |->
                      [ path \in DOMAIN renamed.directory \cup { new_path } |->
                          IF path = new_path THEN renamed.directory[old_path]
                          ELSE IF path = old_path THEN << >>
                          ELSE renamed.directory[path] ],
                    count |-> renamed.count + 1 ])
           ELSE rename_segments(video_id, segments, new_num + 1, renamed)

\* The end of one iteration of the outer loop of rename_audio_files.
Renamed(renamed) ==
  /\ audio_segments_dir' = renamed.directory
  /\ renamed_count' = renamed.count

\* One iteration of the outer loop of rename_audio_files over the transcript
\* files that are left.
RenameAudioFiles ==
  /\ dpc = "rename"
  /\ video_i <= Len(VIDEO_IDS)
  /\ IF transcripts_dir[VIDEO_IDS[video_i]] = << >>
     THEN UNCHANGED << audio_segments_dir, renamed_count >>
     ELSE Renamed(rename_segments(VIDEO_IDS[video_i],
                                  transcripts_dir[VIDEO_IDS[video_i]][1], 1,
                                  [ directory |-> audio_segments_dir,
                                    count |-> renamed_count ]))
  /\ video_i' = video_i + 1
  /\ dpc' = IF video_i = Len(VIDEO_IDS) THEN "done" ELSE "rename"
  /\ UNCHANGED << transcripts_dir, cleanup_stats, pvars, svars, nvars, fvars, qvars,
                  bvars, cvars, hvars >>

\* A video has up to MaxVideoSegments segments, numbered from 1 as the
\* extractor numbers them, and the segmenter cut the audio of some of them.
MaxVideoSegments == 3

Transcripts(n) ==
  [ k \in 1..n |-> [ segment_num |-> k, transcript |-> k ] ]

AudioPaths ==
  { audio_filename(VIDEO_IDS[v], k) : v \in DOMAIN VIDEO_IDS, k \in 1..MaxVideoSegments }

InitCleanup ==
  /\ \E n \in [ { VIDEO_IDS[k] : k \in DOMAIN VIDEO_IDS } -> 1..MaxVideoSegments ] :
       /\ transcripts_dir = [ v \in DOMAIN n |-> << Transcripts(n[v]) >> ]
       /\ \E cut \in SUBSET { path \in AudioPaths : path[2] <= n[path[1]] } :
            audio_segments_dir =
              [ path \in { path \in AudioPaths : path[2] <= n[path[1]] } |->
                  IF path \in cut THEN << path[2] >> ELSE << >> ]
  /\ cleanup_stats = CleanupStats
  /\ renamed_count = 0
  /\ video_i = 1
  /\ dpc = "cleanup"
  /\ ProgressOff
  /\ SpeechOff
  /\ NormalizerOff
  /\ FilterOff
  /\ ScorerOff
  /\ BatchOff
  /\ WorkersOff
  /\ InstancesOff

NextCleanup == CleanupTranscript \/ RenameAudioFiles

SpecCleanup == InitCleanup /\ [][NextCleanup]_vars

(***************************************************************************)
(* utils/checkpoint.py: ExtractionProgress over a Checkpoint directory     *)
(* that holds at most the file of the session.                             *)
(***************************************************************************)
\* The video ids and the totals the calls are made with.
PROGRESS_VIDEO_IDS == { "a", "b", "c" }

MaxTotal == 2

\* self.checkpoint.save(self.session_name, data) in _save_progress: the data
\* written for the sets and the total given.
_save_progress(self_processed, self_failed, self_total_videos) ==
  << [ processed |-> self_processed, failed |-> self_failed,
       total_videos |-> self_total_videos ] >>

\* progress.set_total(total)
SetTotal(total) ==
  /\ ppc = "tracking"
  /\ total_videos' = total
  /\ checkpoint' = _save_progress(processed, failed, total)
  /\ UNCHANGED << processed, failed, ppc, dvars, svars, nvars, fvars, qvars, bvars,
                  cvars, hvars >>

\* progress.mark_processed(video_id)
MarkProcessed(video_id) ==
  /\ ppc = "tracking"
  /\ processed' = processed \cup { video_id }
  /\ failed' = failed \ { video_id }
  /\ checkpoint' = _save_progress(processed', failed', total_videos)
  /\ UNCHANGED << total_videos, ppc, dvars, svars, nvars, fvars, qvars, bvars,
                  cvars, hvars >>

\* progress.mark_failed(video_id)
MarkFailed(video_id) ==
  /\ ppc = "tracking"
  /\ failed' = failed \cup { video_id }
  /\ checkpoint' = _save_progress(processed, failed', total_videos)
  /\ UNCHANGED << processed, total_videos, ppc, dvars, svars, nvars, fvars, qvars,
                  bvars, cvars, hvars >>

\* progress.clear()
Clear ==
  /\ ppc = "tracking"
  /\ processed' = {}
  /\ failed' = {}
  /\ total_videos' = 0
  /\ checkpoint' = << >>
  /\ UNCHANGED << ppc, dvars, svars, nvars, fvars, qvars, bvars, cvars, hvars >>

\* ExtractionProgress(checkpoint, session_name) over a directory without a
\* checkpoint of the session.
InitProgress ==
  /\ processed = {}
  /\ failed = {}
  /\ total_videos = 0
  /\ checkpoint = << >>
  /\ ppc = "tracking"
  /\ CleanupOff
  /\ SpeechOff
  /\ NormalizerOff
  /\ FilterOff
  /\ ScorerOff
  /\ BatchOff
  /\ WorkersOff
  /\ InstancesOff

NextProgress ==
  \/ \E total \in 0..MaxTotal : SetTotal(total)
  \/ \E video_id \in PROGRESS_VIDEO_IDS : MarkProcessed(video_id)
  \/ \E video_id \in PROGRESS_VIDEO_IDS : MarkFailed(video_id)
  \/ Clear

SpecProgress == InitProgress /\ [][NextProgress]_vars

(***************************************************************************)
(* Claims about the normalizer.                                            *)
(***************************************************************************)
ALPHA == PHONETIC_ALPHABET[<< "A" >>]

INDIA == PHONETIC_ALPHABET[<< "I" >>]

\* C2: under the default configuration normalize_text is idempotent: normalizing
\* the result of normalize_text again gives the same text.
C2_Idempotent ==
  (npc = "twice" /\ normalizer = DefaultNormalizer) => renormalized = normalized

\* C7: under the default configuration no stage expands the letters I and A
\* (no text of the letters A, I, B holds the word ALPHA or INDIA once
\* normalized), and a text that is one other letter, with or without
\* punctuation after it, becomes that letter's NATO word.
C7_NeverExpandsIorA ==
  (npc # "ready" /\ normalizer = DefaultNormalizer) =>
    LET out   == str_split(normalized)
        words == str_split(text)
    IN  /\ \A k \in DOMAIN out : out[k] \notin { ALPHA, INDIA }
        /\ \A c \in AZSet \ EXCLUDED_WORDS :
             ( /\ Len(words) = 1
               /\ words[1][1] = c
               /\ AllIn(words[1], 2, Len(words[1]), { ",", "-" }) )
             => normalized = PHONETIC_ALPHABET[<< c >>]

DECIMAL == << "D","E","C","I","M","A","L" >>

\* The period at i is the decimal point of a digits.digits run of t: it stands
\* between two digits, and the digits before it are not themselves the
\* fractional part of the run before (runs are taken from the left and do not
\* overlap).
RECURSIVE IsDecimalPoint(_, _)
IsDecimalPoint(t, i) ==
  /\ 1 < i /\ i < Len(t)
  /\ t[i] = "." /\ t[i - 1] \in DigitSet /\ t[i + 1] \in DigitSet
  /\ LET s == SetMin({ j \in 1..i - 1 : AllIn(t, j, i - 1, DigitSet) })
     IN  ~ (s > 1 /\ IsDecimalPoint(t, s - 1))

DecimalPoints(t) == { i \in 1..Len(t) : IsDecimalPoint(t, i) }

\* What number expansion is to leave in the place of character i of t.
NumberPiece(t, i) ==
  IF t[i] \in DigitSet
  THEN (IF i > 1 /\ t[i - 1] \in DigitSet THEN << " " >> ELSE <<>>)
         \o NUMBER_WORDS[<< t[i] >>]
  ELSE IF IsDecimalPoint(t, i) THEN << " " >> \o DECIMAL \o << " " >>
  ELSE << t[i] >>

CountOf(s, x) == Cardinality({ k \in DOMAIN s : s[k] = x })

\* C8: number expansion puts the word DECIMAL between the expanded integer and
\* fractional parts of every digits.digits run and nowhere else; every other
\* period, the one after a digit run included, is left where it is and every
\* digit becomes its word.  In the normalized text there are as many DECIMAL
\* words as decimal points.
C8_DecimalOnlyInDigitsDotDigits ==
  (npc # "ready") =>
    LET before == Stage5(normalizer, text)
        after  == Stage6(normalizer, text)
    IN  /\ after = Join([ i \in 1..Len(before) |-> NumberPiece(before, i) ], <<>>)
        /\ CountOf(str_split(normalized), DECIMAL) = Cardinality(DecimalPoints(before))

\* A decimal followed by a sentence period: only the first period is a DECIMAL.
C8_Witness ==
  /\ npc = "once"
  /\ text = << "1", ".", "2", "." >>
  /\ Stage6(normalizer, text)
       = << "O","N","E"," ","D","E","C","I","M","A","L"," ","T","W","O","." >>
  /\ normalized = << "O","N","E"," ","D","E","C","I","M","A","L"," ","T","W","O" >>

\* A token of two digits, then L, R or C, then punctuation only.
IsRunwayToken(w) ==
  /\ Len(w) >= 3
  /\ AllIn(w, 1, 2, DigitSet)
  /\ w[3] \in { "L", "R", "C" }
  /\ AllIn(w, 4, Len(w), { "," })

RunwaySide(c) ==
  CASE c = "L" -> << "L","E","F","T" >>
    [] c = "R" -> << "R","I","G","H","T" >>
    [] c = "C" -> << "C","E","N","T","E","R" >>

\* The three words a runway token is to become, in the case the output has.
RunwayWords(self, w) ==
  LET upper == << NUMBER_WORDS[<< w[1] >>], NUMBER_WORDS[<< w[2] >>], RunwaySide(w[3]) >>
  IN  IF self.output_case = CaseLower
      THEN [ k \in 1..3 |-> str_lower(upper[k]) ] ELSE upper

\* C9: under the default configuration, with output_case upper or lower, a
\* token of exactly two digits followed by L, R or C and then punctuation only
\* is normalized to the two digit words followed by LEFT, RIGHT or CENTER:
\* the three words stand next to each other in the result, and they are the
\* whole result when the token is the whole text.
C9_RunwayDesignator ==
  (npc # "ready") =>
    LET words == str_split(text)
        out   == str_split(normalized)
    IN  \A k \in DOMAIN words :
          IsRunwayToken(words[k]) =>
            /\ \E j \in 1..Len(out) - 2 :
                 SubSeq(out, j, j + 2) = RunwayWords(normalizer, words[k])
            /\ Len(words) = 1 => out = RunwayWords(normalizer, words[k])

C9_Witness ==
  /\ npc = "once"
  /\ normalizer = LowerNormalizer
  /\ text = << "2", "7", "R", "," >>
  /\ normalized = << "t","w","o"," ","s","e","v","e","n"," ","r","i","g","h","t" >>

(***************************************************************************)
(* Claims about the filter.                                                *)
(***************************************************************************)
\* The number of whitespace-separated words of t.
WordCount(t) ==
  Cardinality({ i \in 1..Len(t) :
                  t[i] \notin SpaceSet /\ (i = 1 \/ t[i - 1] \in SpaceSet) })

RuleOrder ==
  << "empty", "manual_exclusion", "exclusion_tag", "quality_issue",
     "too_short", "too_long", "custom_filter" >>

\* The condition of each rule, as the filter's contract states it.
RuleHolds(self, t, rule) ==
  CASE rule = "empty" -> \A k \in DOMAIN t : t[k] \in SpaceSet
    [] rule = "manual_exclusion" ->
         \E m \in self.manual_exclusions : str_upper(m) = str_upper(t)
    [] rule = "exclusion_tag" ->
         \E k \in DOMAIN self.exclusion_tags : pattern_search(self.exclusion_tags[k], t)
    [] rule = "quality_issue" ->
         /\ self.exclude_quality_issues
         /\ \E k \in DOMAIN QUALITY_PATTERNS : pattern_search(QUALITY_PATTERNS[k], t)
    [] rule = "too_short" -> WordCount(t) < self.min_length
    [] rule = "too_long" ->
         self.max_length # NoLimit /\ WordCount(t) > self.max_length[1]
    [] rule = "custom_filter" ->
         self.custom_filter # None /\ ~custom_filter_keeps(self.custom_filter, t)

\* C1: should_exclude applies its rules in the order empty, manual exclusion,
\* exclusion tag, quality issue, too short, too long, custom predicate: when
\* the conditions of two or more rules hold for a text, the reason returned is
\* that of the earliest of them, and an exclusion tag is reported with the
\* first pattern of the list that the text matches.
C1_EarliestRuleWins ==
  (fpc = "returned") =>
    LET holding == { k \in DOMAIN RuleOrder : RuleHolds(filter, ftext, RuleOrder[k]) }
    IN  Cardinality(holding) >= 2 =>
          /\ fresult.excluded
          /\ fresult.rule = RuleOrder[SetMin(holding)]
          /\ fresult.rule = "exclusion_tag" =>
                fresult.pattern =
                  filter.exclusion_tags[
                    SetMin({ k \in DOMAIN filter.exclusion_tags :
                               pattern_search(filter.exclusion_tags[k], ftext) })]

\* C10: a text that the empty, manual, exclusion-tag and quality rules do not
\* catch is excluded as too_short exactly when it has fewer than min_length
\* words, and the reason then gives its number of words; a text of exactly
\* min_length words is not excluded for its length.
C10_TooShortBelowMinLength ==
  ( /\ fpc = "returned"
    /\ fresult.rule \notin
         { "empty", "manual_exclusion", "exclusion_tag", "quality_issue" } ) =>
    /\ (fresult.rule = "too_short") <=> (WordCount(ftext) < filter.min_length)
    /\ fresult.rule = "too_short" =>
         fresult.excluded /\ fresult.words = << WordCount(ftext) >>

\* With min_length 3, a text of exactly three words is kept.
C10_Witness ==
  /\ fpc = "returned"
  /\ filter.min_length = 3
  /\ ftext = << "g","o"," ","o","n"," ","o","k" >>
  /\ fresult = NotExcluded

\* C4: after add_manual_exclusion calls and save_manual_exclusions, a filter
\* constructed from the saved file has the manual exclusions of the filter
\* that was saved.
C4_ManualExclusionsRoundTrip ==
  (fpc = "reloaded") => reloaded[1].manual_exclusions = filter.manual_exclusions

(***************************************************************************)
(* Claims about the audio quality scorer.                                  *)
(***************************************************************************)
\* C3: passes_quality_filters returns True exactly when the four checks hold
\* at once: snr_db >= min_snr_db, language = required_language,
\* language_confidence >= min_language_confidence and speech_ratio >=
\* min_speech_ratio; a value equal to its threshold passes and one failing
\* check rejects.
C3_GateIsConjunction ==
  (qpc = "gated") =>
    ( passed <=>
        /\ metrics.snr_db.hundredths >= thresholds.min_snr_db
        /\ metrics.language = thresholds.required_language
        /\ metrics.language_confidence >= thresholds.min_language_confidence
        /\ metrics.speech_ratio >= thresholds.min_speech_ratio )

\* Every metric equal to its threshold: the gate lets it pass.
C3_Witness ==
  /\ qpc = "gated"
  /\ thresholds = DefaultThresholds
  /\ metrics = Metrics(round_db(Db(1500)), "en", 8000, 6000)
  /\ passed

\* The number of characters from the first to the last one that is not a space.
TrimmedLen(t) ==
  LET inked == { k \in DOMAIN t : t[k] \notin SpaceSet }
  IN  IF inked = {} THEN 0 ELSE SetMax(inked) - SetMin(inked) + 1

\* C5: calculate_all_metrics never raises, whatever the audio and the text:
\* it returns the four metrics; an empty audio gives snr_db 0.0 and
\* speech_ratio 0.0 with the language fields those of the text; a text of
\* fewer than 3 trimmed characters, or a failure of the detector, gives the
\* language "unknown" with confidence 0.0.
C5_ScorerNeverRaises ==
  (qpc = "scored") =>
    /\ ~metrics.raised
    /\ (audio = <<>>) =>
         /\ metrics.snr_db.exact /\ metrics.snr_db.hundredths = 0
         /\ metrics.speech_ratio = 0
    /\ ( \/ TrimmedLen(transcript) < 3
         \/ detect_langs = DetectorRaises ) =>
         metrics.language = "unknown" /\ metrics.language_confidence = 0

AllZero(samples) == \A k \in DOMAIN samples : samples[k] = 0

\* C6: calculate_snr always returns a defined finite value: for an all-zero
\* clip, and whenever the frames at or below the 10th energy percentile have
\* zero power, the result is exactly 60.0; it is never an exception.
C6_SnrDefinedOnSilence ==
  (qpc = "snr") =>
    /\ ~snr.raised
    /\ (audio # <<>> /\ AllZero(audio)) => (snr.exact /\ snr.hundredths = 6000)
    /\ ( /\ Len(audio) >= snr_frame_length(sample_rate)
         /\ noise_power(snr_frame_energies(audio, snr_frame_length(sample_rate),
                                            snr_hop_length(sample_rate)),
                        snr_frame_length(sample_rate))[1] = 0 )
         => (snr.exact /\ snr.hundredths = 6000)

\* C11: whenever max_length is an integer M >= 0, a text that no earlier rule
\* catches and that has more than M words is excluded as too_long, the reason
\* giving its number of words; only max_length = None disables the upper bound.
C11_TooLongAboveMaxLength ==
  ( /\ fpc = "returned"
    /\ fresult.rule \notin
         { "empty", "manual_exclusion", "exclusion_tag", "quality_issue", "too_short" } ) =>
    /\ ( filter.max_length # NoLimit /\ WordCount(ftext) > filter.max_length[1] ) =>
         /\ fresult.excluded
         /\ fresult.rule = "too_long"
         /\ fresult.words = << WordCount(ftext) >>
    /\ ( filter.max_length = NoLimit ) => fresult.rule # "too_long"


(***************************************************************************)
(* Claims about the pipeline.                                              *)
(***************************************************************************)
\* The text after the first n stages of the order.
RECURSIVE InOrder(_, _, _)
InOrder(self, t, n) ==
  IF n = 0 THEN t
  ELSE LET before == InOrder(self, t, n - 1)
       IN  IF before = before THEN ApplyStage(STAGE_ORDER[n], self, before) ELSE before

\* What the default configuration makes of each token of the transmission.
TRANSMISSION_WORDS ==
  << << "N", "O", "V", "E", "M", "B", "E", "R" >>,
     << "F", "O", "U", "R" >>,
     << "F", "I", "V", "E" >>,
     << "S", "I", "X" >>,
     << "T", "A", "X", "I" >>,
     << "T", "O" >>,
     << "R", "U", "N", "W", "A", "Y" >>,
     << "T", "W", "O", " ", "S", "E", "V", "E", "N", " ", "L", "E", "F", "T" >>,
     << "C", "O", "N", "T", "A", "C", "T" >>,
     << "T", "O", "W", "E", "R" >>,
     << "O", "N", "E", " ", "O", "N", "E", " ", "E", "I", "G", "H", "T", " ", "D", "E", "C", "I", "M", "A", "L", " ", "T", "H", "R", "E", "E" >> >>

\* C12: normalize_text runs its enabled stages in the one order case fold,
\* special patterns, diacritics, tags, phonetic letters, numbers, contractions,
\* spelling, punctuation, whitespace, final case; under the default
\* configuration every run of tokens of the transmission normalizes to the
\* words of those tokens, the whole of it to "NOVEMBER FOUR FIVE SIX TAXI TO
\* RUNWAY TWO SEVEN LEFT CONTACT TOWER ONE ONE EIGHT DECIMAL THREE".
C12_StagesInFixedOrder ==
  (npc = "once") =>
    /\ normalized = InOrder(normalizer, text, Len(STAGE_ORDER))
    /\ (normalizer = DefaultNormalizer) =>
         \A from \in 1..Len(TRANSMISSION_TOKENS), to \in 1..Len(TRANSMISSION_TOKENS) :
           (from <= to /\ text = TokenRun(TRANSMISSION_TOKENS, from, to)) =>
             normalized = TokenRun(TRANSMISSION_WORDS, from, to)

\* The whole transmission, normalized under the default configuration.
C12_Witness ==
  /\ npc = "once"
  /\ normalizer = DefaultNormalizer
  /\ text = TokenRun(TRANSMISSION_TOKENS, 1, Len(TRANSMISSION_TOKENS))
  /\ normalized = TokenRun(TRANSMISSION_WORDS, 1, Len(TRANSMISSION_WORDS))

\* C13: output_case alone decides the final case: under "upper" the result is
\* its own upper-casing and under "lower" its own lower-casing, whatever the
\* uppercase switch is; under "preserve" the result is the text the whitespace
\* stage left; and the uppercase switch only decides whether the text is
\* upper-cased before the other stages run.
C13_OutputCaseDecidesFinalCase ==
  (npc = "once") =>
    /\ (normalizer.output_case = CaseUpper) => normalized = str_upper(normalized)
    /\ (normalizer.output_case = CaseLower) => normalized = str_lower(normalized)
    /\ (normalizer.output_case = CasePreserve) => normalized = Stage10(normalizer, text)
    /\ normalized =
         normalize_text([ normalizer EXCEPT !.uppercase = FALSE ],
                        IF normalizer.uppercase THEN str_upper(text) ELSE text)

\* The switch off and output_case "upper": the lower-case letter comes out
\* upper-cased.
C13_Witness ==
  /\ npc = "once"
  /\ ~normalizer.uppercase
  /\ normalizer.output_case = CaseUpper
  /\ text = << "a", "B" >>
  /\ normalized = << "A", "B" >>

\* A token that matches no table entry and no pattern: two or more unaccented
\* letters that, upper-cased, are a key of neither the contraction table nor
\* the spelling table.
IsUnmappedToken(self, w) ==
  /\ Len(w) >= 2
  /\ \A k \in DOMAIN w : w[k] \in AZSet \cup LowerSet
  /\ str_upper(w) \notin DOMAIN contractions(self) \cup DOMAIN spelling_corrections(self)

\* The token after the case folding of the configuration.
CaseFolded(self, w) ==
  LET folded == IF self.uppercase THEN str_upper(w) ELSE w
  IN  IF self.output_case = CaseLower THEN str_lower(folded)
      ELSE IF self.output_case = CaseUpper THEN str_upper(folded)
      ELSE folded

\* C14: normalize_text is total: under every configuration it returns a
\* string for every string, the empty string for the empty string, and a token
\* that matches no table entry and no pattern comes out as a word of the result
\* unchanged apart from the case folding.
C14_NormalizeTextIsTotal ==
  (npc = "once") =>
    /\ DOMAIN normalized = 1..Len(normalized)
    /\ \A k \in DOMAIN normalized : normalized[k] \in AlnumSet \cup TotalAlphabet \cup { "_" }
    /\ (text = <<>>) => (normalized = <<>>)
    /\ LET words == str_split(text)
       IN  /\ \A k \in DOMAIN words :
                IsUnmappedToken(normalizer, words[k]) =>
                  CaseFolded(normalizer, words[k]) \in Range(str_split(normalized))
           /\ ( /\ words # <<>>
                /\ \A k \in DOMAIN words : IsUnmappedToken(normalizer, words[k]) ) =>
                normalized =
                  Join([ k \in DOMAIN words |-> CaseFolded(normalizer, words[k]) ], << " " >>)

\* A token of two letters that no table holds, under the default configuration.
C14_Witness ==
  /\ npc = "once"
  /\ normalizer = DefaultNormalizer
  /\ text = << "z", "Q" >>
  /\ normalized = << "Z", "Q" >>

\* C15: invalid configuration fails fast at construction: no normalizer exists
\* with an output_case outside upper, lower and preserve, and no filter exists
\* with a negative min_length, a max_length below min_length or a pattern that
\* does not compile.
C15_InvalidConfigurationFailsFast ==
  /\ (npc \in { "ready", "once" }) => normalizer.output_case \in OutputCases
  /\ (fpc \in { "idle", "returned" }) =>
       /\ filter.min_length >= 0
       /\ (filter.max_length # NoLimit) => (filter.max_length[1] >= filter.min_length)
       /\ \A k \in DOMAIN filter.exclusion_tags : ~re_compile_raises(filter.exclusion_tags[k])

\* C16: a batch run never aborts because of one bad segment: no exception
\* leaves the loop of add_quality_metrics.main or of process_all_transcripts,
\* and when the batch is done every file is written with every segment that
\* has no problem of its own: a segment with a sound audio carries its metrics
\* unless --filter removed it for its metrics, and a segment with a transcript
\* the filter keeps is in the output.
C16_BatchNeverAborts ==
  /\ bpc # "escaped"
  /\ (bpc = "done") =>
       /\ \A f \in DOMAIN json_files :
            /\ output_files[f] # <<>>
            /\ \A k \in DOMAIN json_files[f] :
                 LET segment == json_files[f][k]
                     result  == process_segment_body(segment, quality_enabled)
                 IN  (segment.audio_file = "silent.wav") =>
                       \/ args_filter /\ ~result.passes
                       \/ \E j \in DOMAIN output_files[f][1] :
                            /\ output_files[f][1][j].segment_num = segment.segment_num
                            /\ output_files[f][1][j].quality # <<>>
       /\ \A f \in DOMAIN transcript_files :
            \A k \in DOMAIN transcript_files[f] :
              LET segment == transcript_files[f][k]
              IN  ( /\ segment.has_transcript
                    /\ ~should_exclude(filter, segment.transcript).excluded ) =>
                    /\ output_files[f] # <<>>
                    /\ \E j \in DOMAIN output_files[f][1].segments :
                         output_files[f][1].segments[j].segment_num = segment.segment_num

\* The segments of a transcript the filter does not exclude, in their order.
Survivors(original_segments) ==
  SelectSeq(original_segments,
            LAMBDA segment : ~should_exclude(filter, segment.transcript).excluded)

\* C17: preprocess_transcript filters the raw text first and normalizes the
\* survivors: the output holds exactly the segments the filter did not
\* exclude, in their original order, each with transcript =
\* normalize_text(raw text) and original_transcript = the raw text, and the
\* output segments and filtered_segments add up to the input segments.
C17_FilterFirstThenNormalize ==
  (bpc = "done" /\ Len(transcript_files) = 1) =>
    LET original_segments == transcript_files[1]
        survivors         == Survivors(original_segments)
        preprocessed      == output_files[1][1]
    IN  /\ output_files[1] # <<>>
        /\ Len(preprocessed.segments) = Len(survivors)
        /\ \A j \in DOMAIN survivors :
             /\ preprocessed.segments[j].segment_num = survivors[j].segment_num
             /\ preprocessed.segments[j].original_transcript = survivors[j].transcript
             /\ preprocessed.segments[j].transcript =
                  normalize_text(normalizer, survivors[j].transcript)
        /\ preprocessed.total_segments = Len(preprocessed.segments)
        /\ Len(preprocessed.segments) + preprocessed.filtered_segments
             = Len(original_segments)

\* Three segments of which the second is too short: the first and the third
\* are the output, normalized, with their raw texts beside.
C17_Witness ==
  /\ bpc = "done"
  /\ Len(transcript_files) = 1
  /\ Len(transcript_files[1]) = 3
  /\ transcript_files[1][1].transcript = << "g", "o", " ", "b", "2" >>
  /\ transcript_files[1][2].transcript = << "o", "k" >>
  /\ transcript_files[1][3].transcript = GO_ON_OK
  /\ output_files[1] # <<>>
  /\ output_files[1][1].filtered_segments = 2
  /\ Len(output_files[1][1].segments) = 1
  /\ output_files[1][1].segments[1].segment_num = 3
  /\ output_files[1][1].segments[1].transcript = << "G", "O", " ", "O", "N", " ", "O", "K" >>
  /\ output_files[1][1].segments[1].original_transcript = GO_ON_OK

\* What the call of a worker returns when it runs alone on the instances as
\* they were constructed.
Alone(op, segment) ==
  CASE op = "normalize_text" ->
         [ NoResult EXCEPT !.text = normalize_text(DefaultNormalizer, segment.text) ]
    [] op = "should_exclude" ->
         [ NoResult EXCEPT !.exclusion = should_exclude(SharedFilter, segment.text) ]
    [] op = "calculate_all_metrics" ->
         [ NoResult EXCEPT !.metrics =
             calculate_all_metrics(segment.audio, segment.text, segment.sample_rate,
                                   segment.detect_langs) ]
    [] op = "passes_quality_filters" ->
         [ NoResult EXCEPT !.passed =
             passes_quality_filters(segment.metrics, DefaultThresholds) ]

\* C18: the four operations read but never write their component: under every
\* interleaving of the workers' calls the shared normalizer and filter stay
\* as constructed, and every call returns what it returns when it runs alone.
C18_ConcurrentCallsAsAlone ==
  /\ normalizer = DefaultNormalizer
  /\ filter = SharedFilter
  /\ \A w \in Workers :
       (call[w].pc = "returned") => (call[w].result = Alone(call[w].op, call[w].segment))

\* A call of normalize_text has returned "GO BRAVO TWO" while another worker
\* is in the middle of its own on another segment.
C18_Witness ==
  \E v, w \in Workers :
    /\ call[v].pc = "returned"
    /\ call[v].op = "normalize_text"
    /\ call[v].result.text = << "G", "O", " ", "B", "R", "A", "V", "O", " ", "T", "W", "O" >>
    /\ call[w].pc = "running"
    /\ call[w].op = "normalize_text"
    /\ call[w].statement = 5
    /\ call[w].segment # call[v].segment

\* The texts of the list that should_exclude excludes with the reason.
ExcludedFor(reason) ==
  { k \in DOMAIN ftext : should_exclude(filter, ftext[k]) = reason }

\* C19: filter_stats returns total = len(texts), kept + excluded = total, a
\* histogram whose counts add up to excluded and that counts each excluded
\* text once, under the reason should_exclude reports for it, exclusion_rate =
\* excluded / total (0 for the empty list), and kept = len(filter_texts(texts)).
C19_FilterStatsTallies ==
  (fpc = "reasons") =>
    LET tallied == fresult.stats
        reasons == tallied.exclusion_reasons
        out     == { k \in DOMAIN ftext : should_exclude(filter, ftext[k]).excluded }
    IN  /\ tallied.total = Len(ftext)
        /\ tallied.kept + tallied.excluded = tallied.total
        /\ tallied.excluded = Cardinality(out)
        /\ SumOver(reasons, DOMAIN reasons) = tallied.excluded
        /\ DOMAIN reasons = { should_exclude(filter, ftext[k]) : k \in out }
        /\ \A reason \in DOMAIN reasons : reasons[reason] = Cardinality(ExcludedFor(reason))
        /\ tallied.exclusion_rate =
             IF Len(ftext) = 0 THEN << 0, 1 >> ELSE << tallied.excluded, tallied.total >>
        /\ tallied.kept = Len(fresult.kept)
        /\ Len(fresult.excluded) = tallied.excluded

\* Three texts: two excluded for the same tag, one kept.
C19_Witness ==
  /\ fpc = "reasons"
  /\ Len(ftext) = 3
  /\ fresult.stats.excluded = 2
  /\ fresult.stats.kept = 1
  /\ fresult.stats.exclusion_rate = << 2, 3 >>
  /\ \E reason \in DOMAIN fresult.stats.exclusion_reasons :
       /\ reason.rule = "exclusion_tag"
       /\ fresult.stats.exclusion_reasons[reason] = 2

\* The observable state of an instance: what its attributes hold.
Observable(instance) ==
  [ name \in DOMAIN instance.attributes |-> heap[instance.attributes[name]] ]

\* C20: extension never mutates shared state: no construction and no call of
\* add_exclusion_tag or add_manual_exclusion on one instance changes a
\* class-level table or the observable state of another instance.
C20_ExtensionNeverMutatesShared ==
  [][ /\ \A table \in ClassObjects : heap'[table] = heap[table]
      /\ \A other \in FilterNames \ { last_call'.instance } :
           filters[other].built =>
             [ name \in DOMAIN filters'[other].attributes |->
                 heap'[filters'[other].attributes[name]] ] = Observable(filters[other])
      /\ \A other \in NormalizerNames \ { last_call'.instance } :
           normalizers[other].built =>
             [ name \in DOMAIN normalizers'[other].attributes |->
                 heap'[normalizers'[other].attributes[name]] ] = Observable(normalizers[other])
    ]_vars

\* C28: every segment that preprocess_transcript keeps, with the default filter
\* and the default normalizer, has a non-empty normalized transcript: a raw
\* text that passes the filter never normalizes to the empty string.
C28_KeptSegmentsAreNotEmpty ==
  \A f \in DOMAIN output_files :
    output_files[f] # << >> =>
      \A k \in DOMAIN output_files[f][1].segments :
        output_files[f][1].segments[k].transcript # << >>

(***************************************************************************)
(* The characters of the result.                                           *)
(***************************************************************************)
\* Only alphanumeric characters, separated by single spaces, no space at
\* either end.
OnlyWordsAndSingleSpaces(t) ==
  /\ \A k \in DOMAIN t : t[k] \in AlnumSet \cup { " " }
  /\ \A k \in 1..(Len(t) - 1) : ~(t[k] = " " /\ t[k + 1] = " ")
  /\ (t # <<>>) => (t[1] # " " /\ t[Len(t)] # " ")

\* C21: under the default configuration the result of normalize_text holds
\* only alphanumeric characters and single spaces: every other character is
\* deleted, runs of whitespace are one space, and no whitespace leads or trails.
C21_OnlyAlphanumericsAndSingleSpaces ==
  (npc = "once" /\ normalizer = DefaultNormalizer) => OnlyWordsAndSingleSpaces(normalized)

(***************************************************************************)
(* Numbers written with thousands separators.                              *)
(***************************************************************************)
\* A number written with thousands separators: a group of one to three
\* digits, then one or more groups of a comma and exactly three digits.
IsCommaNumber(w) ==
  LET commas == { p \in DOMAIN w : w[p] = "," }
  IN  /\ commas # {}
      /\ \A p \in DOMAIN w : w[p] \in DigitSet \cup { "," }
      /\ SetMin(commas) \in 2..4
      /\ \A p \in commas :
           /\ p + 3 <= Len(w)
           /\ \A q \in (p + 1)..(p + 3) : w[q] \in DigitSet
           /\ (p + 3 = Len(w)) \/ (w[p + 4] = ",")

\* n,000 for n from 1 to 99, n written with one or two digits.
IsRoundThousand(w) ==
  /\ IsCommaNumber(w)
  /\ Len(w) \in 5..6
  /\ w[1] # "0"
  /\ SubSeq(w, Len(w) - 3, Len(w)) = << ",","0","0","0" >>

\* The cardinal word of a digit from 1 to 9.
CardinalUnit(d) ==
  CASE d = "1" -> << "O","N","E" >>
    [] d = "2" -> << "T","W","O" >>
    [] d = "3" -> << "T","H","R","E","E" >>
    [] d = "4" -> << "F","O","U","R" >>
    [] d = "5" -> << "F","I","V","E" >>
    [] d = "6" -> << "S","I","X" >>
    [] d = "7" -> << "S","E","V","E","N" >>
    [] d = "8" -> << "E","I","G","H","T" >>
    [] d = "9" -> << "N","I","N","E" >>

\* The cardinal word of 10 + d.
CardinalTeen(d) ==
  CASE d = "0" -> << "T","E","N" >>
    [] d = "1" -> << "E","L","E","V","E","N" >>
    [] d = "2" -> << "T","W","E","L","V","E" >>
    [] d = "3" -> << "T","H","I","R","T","E","E","N" >>
    [] d = "4" -> << "F","O","U","R","T","E","E","N" >>
    [] d = "5" -> << "F","I","F","T","E","E","N" >>
    [] d = "6" -> << "S","I","X","T","E","E","N" >>
    [] d = "7" -> << "S","E","V","E","N","T","E","E","N" >>
    [] d = "8" -> << "E","I","G","H","T","E","E","N" >>
    [] d = "9" -> << "N","I","N","E","T","E","E","N" >>

\* The cardinal word of 10 * d, d from 2 to 9.
CardinalTens(d) ==
  CASE d = "2" -> << "T","W","E","N","T","Y" >>
    [] d = "3" -> << "T","H","I","R","T","Y" >>
    [] d = "4" -> << "F","O","R","T","Y" >>
    [] d = "5" -> << "F","I","F","T","Y" >>
    [] d = "6" -> << "S","I","X","T","Y" >>
    [] d = "7" -> << "S","E","V","E","N","T","Y" >>
    [] d = "8" -> << "E","I","G","H","T","Y" >>
    [] d = "9" -> << "N","I","N","E","T","Y" >>

\* The cardinal word(s) of n from 1 to 99, n written without a leading zero.
Cardinal(n) ==
  IF Len(n) = 1 THEN CardinalUnit(n[1])
  ELSE IF n[1] = "1" THEN CardinalTeen(n[2])
  ELSE IF n[2] = "0" THEN CardinalTens(n[1])
  ELSE CardinalTens(n[1]) \o << " " >> \o CardinalUnit(n[2])

\* The number without its commas.
WithoutCommas(w) == SelectSeq(w, LAMBDA c : c # ",")

\* What the pre-pass makes of a number written with thousands separators.
ThousandsPrepassed(w) ==
  IF IsRoundThousand(w)
  THEN Cardinal(SubSeq(w, 1, Len(w) - 4)) \o << " ","T","H","O","U","S","A","N","D" >>
  ELSE WithoutCommas(w)

\* And what the whole normalization makes of it.
ThousandsNormalized(w) ==
  IF IsRoundThousand(w) THEN ThousandsPrepassed(w) ELSE digit_by_digit(WithoutCommas(w))

\* C22: the pre-pass expands every round thousand n,000 with n from 1 to 99
\* to the cardinal word(s) of n followed by THOUSAND; every other number
\* written with thousands separators only loses its comma and is expanded
\* digit by digit later.
C22_RoundThousandsExpandToWords ==
  LET words == str_split(text)
  IN  ( /\ npc = "once"
        /\ words # <<>>
        /\ \A k \in DOMAIN words : IsCommaNumber(words[k]) ) =>
        /\ _preprocess_special_patterns(Join(words, << " " >>)) =
             Join([ k \in DOMAIN words |-> ThousandsPrepassed(words[k]) ], << " " >>)
        /\ normalized =
             Join([ k \in DOMAIN words |-> ThousandsNormalized(words[k]) ], << " " >>)

(***************************************************************************)
(* Contractions and possessives.                                           *)
(***************************************************************************)
\* A token as the later stages leave it when contraction expansion left it
\* untouched: upper-cased, its punctuation deleted.
Untouched(w) == _remove_punctuation(str_upper(w))

\* The result when every token ending in 'S is left untouched and every other
\* token that is a key of the table is replaced by its entry.
PossessivesUntouched(self, words) ==
  Join([ k \in DOMAIN words |->
           IF ends_with_possessive(str_upper(words[k])) THEN Untouched(words[k])
           ELSE IF str_upper(words[k]) \in DOMAIN contractions(self)
           THEN contractions(self)[str_upper(words[k])]
           ELSE Untouched(words[k]) ],
       << " " >>)

\* The result when every token that is a key of the table is replaced by its
\* entry and every other token is left untouched.
KeysReplaced(self, words) ==
  Join([ k \in DOMAIN words |->
           IF str_upper(words[k]) \in DOMAIN contractions(self)
           THEN contractions(self)[str_upper(words[k])]
           ELSE Untouched(words[k]) ],
       << " " >>)

\* C23 as stated: contraction expansion leaves every token that ends in 'S
\* untouched, so that it only loses its apostrophe at punctuation removal, and
\* replaces every other token that is a key of the contraction table by its
\* entry.
C23_PossessivesLeftUntouched ==
  (npc = "once") => normalized = PossessivesUntouched(normalizer, str_split(text))

\* C23 as amended: contraction expansion replaces every token that is a key
\* of the contraction table by its entry, the keys ending in 'S included; every
\* other token is left unchanged, and one ending in 'S then only loses its
\* apostrophe at punctuation removal.
C23_TableKeysReplacedFirst ==
  (npc = "once") => normalized = KeysReplaced(normalizer, str_split(text))

\* A possessive that is no key next to a contraction ending in 'S.
C23_Witness ==
  /\ npc = "once"
  /\ normalizer = DefaultNormalizer
  /\ text = << "P","I","L","O","T","'","S"," ","I","T","'","S" >>
  /\ normalized = << "P","I","L","O","T","S"," ","I","T"," ","I","S" >>

(***************************************************************************)
(* Callsign splitting.                                                     *)
(***************************************************************************)
\* The whole token is nl letters, nd digits and ns letters with nl in NL,
\* nd in ND and ns in NS.
HasShape(w, NL, ND, NS) ==
  \E nl \in NL, nd \in ND, ns \in NS :
    /\ Len(w) = nl + nd + ns
    /\ \A k \in 1..nl : w[k] \in AZSet
    /\ \A k \in (nl + 1)..(nl + nd) : w[k] \in DigitSet
    /\ \A k \in (nl + nd + 1)..Len(w) : w[k] \in AZSet

\* The three sub-patterns in their priority order.
IsMixedCallsign(w) == HasShape(w, 1..2, 1..4, 1..3)

IsPlainCallsign(w) == HasShape(w, 1..4, 2..4, {0})

IsSuffixCallsign(w) == HasShape(w, 1..4, 2..4, {1})

\* The text with every token that has one of the three shapes replaced by its
\* characters separated by single spaces, the rest as it is.
RECURSIVE CallsignsSplit(_, _)
CallsignsSplit(t, i) ==
  IF i > Len(t) THEN <<>>
  ELSE IF t[i] \in SpaceSet THEN << t[i] >> \o CallsignsSplit(t, i + 1)
  ELSE LET e == Find(t, i, SpaceSet)
           w == SubSeq(t, i, e - 1)
       IN  (IF IsMixedCallsign(w) \/ IsPlainCallsign(w) \/ IsSuffixCallsign(w)
            THEN Join([ k \in 1..Len(w) |-> << w[k] >> ], << " " >>)
            ELSE w) \o CallsignsSplit(t, e)

\* The first sub-pattern that matches the token rewrites it, and what a
\* sub-pattern has written the later ones leave alone.
FirstMatchRewrites(w) ==
  LET split == Join([ k \in 1..Len(w) |-> << w[k] >> ], << " " >>)
      first == mixed_callsign(w)
      second == plain_callsign(first)
      third == suffix_callsign(second)
  IN  /\ IsMixedCallsign(w) => (first = split /\ second = first /\ third = first)
      /\ (~IsMixedCallsign(w) /\ IsPlainCallsign(w)) =>
           (first = w /\ second = split /\ third = second)
      /\ (~IsMixedCallsign(w) /\ ~IsPlainCallsign(w) /\ IsSuffixCallsign(w)) =>
           (first = w /\ second = w /\ third = split)
      /\ (first # w) => (second = first /\ third = first)
      /\ (second # first) => (third = second)

IsSeparatedSide(words, k) ==
  /\ k >= 3
  /\ words[k] \in { << "L" >>, << "R" >>, << "C" >> }
  /\ Len(words[k - 1]) = 1 /\ words[k - 1][1] \in DigitSet
  /\ Len(words[k - 2]) = 1 /\ words[k - 2][1] \in DigitSet

\* The number of words the earlier tokens come out as: a compact designator
\* gives three, every other token of these texts one.
WordsBefore(words, k) ==
  (k - 1) + 2 * Cardinality({ j \in 1..(k - 1) : IsRunwayToken(words[j]) })

\* C25: a runway designator written as separate tokens is expanded like the
\* compact form: a single-letter token L, R or C that directly follows two
\* single-digit tokens becomes LEFT, RIGHT or CENTER, so that RUNWAY 2 7 L
\* becomes RUNWAY TWO SEVEN LEFT.
C25_SeparatedRunwayDesignator ==
  (npc = "once") =>
    LET words == str_split(text)
        out   == str_split(normalized)
    IN  \A k \in DOMAIN words :
          IsSeparatedSide(words, k) =>
            /\ WordsBefore(words, k) + 1 <= Len(out)
            /\ out[WordsBefore(words, k) + 1] = RunwaySide(words[k][1])

(***************************************************************************)
(* Claims about the cleanup script.                                        *)
(***************************************************************************)
\* C26: after cleanup_transcripts followed by rename_audio_files, transcripts
\* and audio files are synchronized: for every video that is left and every
\* segment of it, the audio file named after the video and the segment's
\* number exists and is the audio that belonged to that segment before.
C26_TranscriptsAndAudioSynchronized ==
  (dpc = "done") =>
    \A k \in DOMAIN VIDEO_IDS :
      transcripts_dir[VIDEO_IDS[k]] # << >> =>
        \A i \in DOMAIN transcripts_dir[VIDEO_IDS[k]][1] :
          LET seg == transcripts_dir[VIDEO_IDS[k]][1][i]
          IN  /\ path_exists(audio_segments_dir, audio_filename(VIDEO_IDS[k], seg.segment_num))
              /\ audio_segments_dir[audio_filename(VIDEO_IDS[k], seg.segment_num)]
                   = << seg.transcript >>

(***************************************************************************)
(* Digits in the result.                                                   *)
(***************************************************************************)
\* The words of the digits of t, in their order.
DigitWords(t) ==
  LET digits == SelectSeq(t, LAMBDA c : c \in DigitSet)
  IN  [ k \in DOMAIN digits |-> NUMBER_WORDS[<< digits[k] >>] ]

\* The tokens of t that are the word of a digit, in their order.
DigitWordTokens(t) ==
  SelectSeq(str_split(t), LAMBDA w : \E d \in DigitSet : w = NUMBER_WORDS[<< d >>])

\* C27: under the default configuration every digit of the input that the
\* round-thousand rule does not consume comes out as a token of its own, the
\* word of that digit (9 as NINER): no token of the result is a digit word
\* glued to another digit word or to letters, whatever surrounds the digits
\* in the input (letters, a colon, a slash, a hyphen, a second decimal point).
C27_EveryDigitIsItsOwnWord ==
  (npc = "once") => DigitWordTokens(normalized) = DigitWords(text)

(***************************************************************************)
(* Claims about the speech ratio.                                          *)
(***************************************************************************)
\* The complete 30 ms frames of the audio, as lists of samples.
CompleteFrames ==
  LET frame_length == (30 * sample_rate) \div 1000
  IN  [ j \in 1..(Len(audio) \div frame_length) |->
          SubSeq(audio, (j - 1) * frame_length + 1, j * frame_length) ]

\* The energy of a frame.
RECURSIVE FrameEnergy(_)
FrameEnergy(frame) ==
  IF frame = <<>> THEN 0 ELSE Head(frame) * Head(frame) + FrameEnergy(Tail(frame))

\* ceil(a / b) for a >= 0 and b > 0.
CeilDiv(a, b) == (a + b - 1) \div b

\* C29: for every audio with N >= 1 complete 30 ms frames and every level with
\* percentile p in {20, 30, 40, 50}, calculate_speech_ratio counts at most
\* N - ceil(p * (N - 1) / 100) frames as speech, because only frames strictly
\* above the p-th energy percentile count: the ratio lies in [0, 1) and never
\* reaches 1.0, and frames of all-equal energy, silence included, give 0.0.
C29_SpeechRatioBelowOne ==
  LET N == Len(CompleteFrames)
      p == AGGRESSIVENESS_PERCENTILES[aggressiveness]
  IN  (spc = "done" /\ N >= 1) =>
        /\ p \in { 20, 30, 40, 50 }
        /\ speech_ratio[2] = N
        /\ speech_ratio[1] <= N - CeilDiv(p * (N - 1), 100)
        /\ 0 <= speech_ratio[1] /\ speech_ratio[1] < speech_ratio[2]
        /\ (\A i, j \in 1..N : FrameEnergy(CompleteFrames[i]) = FrameEnergy(CompleteFrames[j]))
             => speech_ratio[1] = 0

\* Three frames of rising energy at the most permissive level: as many speech
\* frames as the bound allows.
C29_Witness ==
  /\ spc = "done"
  /\ sample_rate = 34
  /\ aggressiveness = 0
  /\ audio = << 0, 1, 2 >>
  /\ speech_ratio = << 2, 3 >>

(***************************************************************************)
(* Claims about the progress tracker.                                      *)
(***************************************************************************)
\* C30: after any sequence of set_total, mark_processed, mark_failed and clear
\* calls on an ExtractionProgress, no video id is in both the processed set
\* and the failed set.
C30_ProcessedAndFailedDisjoint ==
  (ppc = "tracking") => (processed \cap failed = {})
=============================================================================
